---- MODULE Spec2Model ----
(***************************************************************************)
(* A model of the spatially hashed voxel block grid                        *)
(* (open3d::t::geometry::VoxelBlockGrid).                                  *)
(*                                                                         *)
(* Lengths are integers in units of half a voxel edge, so that the         *)
(* truncation distance voxel_size * block_resolution * 0.5 is an integer.  *)
(* TSDF and colour values are exact fractions [n, d] in lowest terms (the  *)
(* running average is computed without float rounding).                    *)
(*                                                                         *)
(* The hash map (core::HashMap) and the kernels (kernel::voxel_grid)       *)
(* are not part of the translated sources; they are modelled from their    *)
(* documented contract and are marked so in the model map.                 *)
(***************************************************************************)
EXTENDS Integers, Sequences, FiniteSets, TLC

\* ---- bounds ----
\* largest block_count a grid is constructed with
MaxCapacity == 2
\* work explored: every completed Integrate call costs 1 + Len(block_coords)
MaxWork == 5
\* parallel workers of one kernel launch
MaxWorkers == 2
\* largest estimated_number handed to ExtractSurfacePoints
MaxBudget == 2

\* ---- construction arguments ----
voxel_size_ == 2
block_resolution_ == 2
AttrNames == <<"tsdf", "weight", "color">>
UnknownAttrs == {"normal"}

\* name_attr_map_[attr_names[i]] = i
name_attr_map_ == [n \in {AttrNames[i] : i \in 1..Len(AttrNames)} |->
                     (CHOOSE i \in 1..Len(AttrNames) : AttrNames[i] = n) - 1]

\* block coordinates used as keys
Coords == {<<0, 0, 0>>, <<0, 0, 1>>}
NoKey == <<"uninit">>

\* local voxel offsets of one block
Voxels == (0..(block_resolution_ - 1)) \X (0..(block_resolution_ - 1))
              \X (0..(block_resolution_ - 1))

\* ---- fractions ----
Abs(x) == IF x < 0 THEN -x ELSE x
Min(a, b) == IF a < b THEN a ELSE b
Max(a, b) == IF a > b THEN a ELSE b

RECURSIVE GCD(_, _)
GCD(a, b) == IF b = 0 THEN a ELSE GCD(b, a % b)

Frac(n, d) == LET g == GCD(Abs(n), d) IN [n |-> n \div g, d |-> d \div g]
Zero == [n |-> 0, d |-> 1]
FracLeq(p, q) == p.n * q.d <= q.n * p.d

FAdd(p, q) == Frac(p.n * q.d + q.n * p.d, p.d * q.d)
FSub(p, q) == Frac(p.n * q.d - q.n * p.d, p.d * q.d)
FMul(p, q) == Frac(p.n * q.n, p.d * q.d)
\* p / q for q > 0
FDiv(p, q) == Frac(p.n * q.d, p.d * q.n)
\* p / q for q # 0
FQuot(p, q) == IF q.n < 0 THEN Frac(-(p.n * q.d), p.d * (-q.n))
               ELSE Frac(p.n * q.d, p.d * q.n)
FInt(x) == [n |-> x, d |-> 1]
Floor(p) == p.n \div p.d
One == [n |-> 1, d |-> 1]

RECURSIVE FSum(_, _)
FSum(S, f) ==
  IF S = {} THEN Zero
  ELSE LET x == CHOOSE y \in S : TRUE IN FAdd(f[x], FSum(S \ {x}, f))

\* (old * w + x) / (w + 1)
RunningAverage(old, w, x) == Frac(old.n * w + x * old.d, old.d * (w + 1))

\* ---- inputs of a frame ----
ImageCols == 0..1
ImageRows == 0..0
Pixels == ImageCols \X ImageRows

\* pinhole intrinsics
Intrinsic == [fx |-> 2, fy |-> 2, cx |-> 0, cy |-> 0]

\* A frame: depth and colour images, the extrinsic (a translation along the
\* optical axis), depth_scale and depth_max.
Frames ==
  { [depth |-> [p \in Pixels |-> 6], color |-> [p \in Pixels |-> 1],
     tz |-> 1, depth_scale |-> 2, depth_max |-> 8],
    [depth |-> [p \in Pixels |-> IF p[1] = 0 THEN 4 ELSE 2],
     color |-> [p \in Pixels |-> 3],
     tz |-> -3, depth_scale |-> 1, depth_max |-> 2] }

\* tensors of block coordinates, duplicates allowed
RECURSIVE SeqsUpTo(_, _)
SeqsUpTo(S, n) ==
  IF n = 0 THEN {<<>>}
  ELSE LET shorter == SeqsUpTo(S, n - 1)
       IN shorter \cup {Append(q, x) : q \in {r \in shorter : Len(r) = n - 1}, x \in S}
CoordSeqs == SeqsUpTo(Coords, MaxWork - 1)

\* the tensor arguments Integrate validates, in the order it checks them
IntegrateInputs == <<"block_coords", "depth", "color", "intrinsic", "extrinsic">>
\* the sets of malformed tensors tried: none, any one, any one and all after it
Malformed(inputs) ==
  {{}} \cup {{inputs[i]} : i \in DOMAIN inputs}
       \cup {{inputs[j] : j \in i..Len(inputs)} : i \in DOMAIN inputs}
RayCastInputs == <<"block_coords", "intrinsic", "extrinsic">>

\* ---- state ----
VARIABLES
  capacity,      \* block_count of block_hashmap_
  block_keys,    \* block_hashmap_->GetKeyTensor(): buffer index -> key
  active,        \* block_hashmap_->GetActiveIndices()
  block_values,  \* block_hashmap_->GetValueTensors(): buffer index -> voxel -> cell
  frustum,       \* frustum_hashmap_: nullptr, or its capacity and keys
  local,         \* arguments and local tensors of the last Integrate that returned
  ret,           \* the last operation, its argument and what its caller observes
  work,          \* cost of the completed Integrate calls
  pass,          \* the integration pass the parallel workers are running
  kernel         \* ProjectCUDA: the images and the threads of its two launches

vars == <<capacity, block_keys, active, block_values, frustum, local, ret, work,
          pass, kernel>>
grid == <<capacity, block_keys, active, block_values>>

Slots == 0..(capacity - 1)
EmptyCell == [tsdf |-> Zero, weight |-> 0, color |-> Zero]
NoFrame == [depth |-> <<>>]
\* frustum_hashmap_ before the first touch pass: nullptr
NullFrustum == [null |-> TRUE, capacity |-> 0, keys |-> {}, element_shape |-> <<>>]
NoLocal == [block_coords |-> <<>>, frame |-> NoFrame, buf_indices |-> <<>>,
            masks |-> <<>>, was_empty |-> FALSE]

\* ---- the hash map (core::HashMap) ----
\* buffer indices at which key k is stored and active
SlotsOf(bk, act, k) == {s \in act : bk[s] = k}
Present(bk, act, k) == SlotsOf(bk, act, k) # {}

\* Insert-if-absent of coords[i] for every i in todo, the single insertions
\* taken one at a time in any order.  An absent key takes any free buffer
\* index; with no free index left the insertion fails and changes nothing.
\* won[i] is the index coords[i] was inserted at by this very insertion, or -1.
RECURSIVE InsertAll(_, _, _, _, _)
InsertAll(bk, act, coords, todo, won) ==
  IF todo = {} THEN {[keys |-> bk, active |-> act, won |-> won]}
  ELSE UNION {
         LET k == coords[i]
             free == DOMAIN bk \ act
         IN IF Present(bk, act, k) \/ free = {}
            THEN InsertAll(bk, act, coords, todo \ {i}, won)
            ELSE UNION { InsertAll([bk EXCEPT ![s] = k], act \cup {s}, coords,
                                   todo \ {i}, [won EXCEPT ![i] = s])
                         : s \in free }
         : i \in todo }

\* HashMap::Activate(keys, buf_indices, masks): the outcomes of one call.
Activate(bk, act, coords) ==
  InsertAll(bk, act, coords, DOMAIN coords, [i \in DOMAIN coords |-> -1])

\* every tensor t with t[j] \in choice[j] for j in i..Len(choice), as a tuple
RECURSIVE Tensors(_, _)
Tensors(choice, i) ==
  IF i > Len(choice) THEN {<<>>}
  ELSE {<<x>> \o t : x \in choice[i], t \in Tensors(choice, i + 1)}

\* HashMap::Find(keys, buf_indices, masks): mask true with the key's index for
\* a present key, mask false with an unspecified index for an absent one.
Find(bk, act, coords) ==
  Tensors([i \in DOMAIN coords |->
             IF Present(bk, act, coords[i])
             THEN {[idx |-> s, mask |-> TRUE] : s \in SlotsOf(bk, act, coords[i])}
             ELSE {[idx |-> s, mask |-> FALSE] : s \in DOMAIN bk}], 1)

\* The (buf_indices, masks) Activate reports: mask true with the new index for
\* a key this call inserted, mask false with an unspecified index otherwise.
ActivateOutputs(a, coords) ==
  Tensors([i \in DOMAIN coords |->
             IF a.won[i] # -1
             THEN {[idx |-> a.won[i], mask |-> TRUE]}
             ELSE {[idx |-> s, mask |-> FALSE] : s \in DOMAIN a.keys}], 1)

\* HashMap::Clear(): no key stays active
Clear(bk, act) == [keys |-> bk, active |-> {}]

\* ---- the integration kernel (kernel::voxel_grid::Integrate) ----
\* world position of voxel v of the block with coordinate key
VoxelWorld(key, v) ==
  [a \in 1..3 |-> (key[a] * block_resolution_ + v[a]) * voxel_size_]

\* world -> camera (the extrinsic is a translation along the optical axis)
RigidTransform(w, tz) == <<w[1], w[2], w[3] + tz>>

\* camera -> pixel, for a point in front of the camera
Project(c) == << (Intrinsic.fx * c[1]) \div c[3] + Intrinsic.cx,
                 (Intrinsic.fy * c[2]) \div c[3] + Intrinsic.cy >>

Clamp(x, lo, hi) == Max(lo, Min(x, hi))

\* Faulty variant: the TSDF is written but the weight is left as it was
UpdateVoxelKeepsWeight(cell, key, v, frame, sdf_trunc) ==
  LET c == RigidTransform(VoxelWorld(key, v), frame.tz)
  IN IF c[3] <= 0 THEN cell
     ELSE LET p == Project(c)
          IN IF p \notin Pixels \/ c[3] > frame.depth_max THEN cell
             ELSE LET depth == frame.depth[p] \div frame.depth_scale
                      sdf == depth - c[3]
                  IN IF sdf < -sdf_trunc THEN cell
                     ELSE [cell EXCEPT
                             !.tsdf = RunningAverage(cell.tsdf, cell.weight,
                                        Clamp(sdf, -sdf_trunc, sdf_trunc))]

\* Faulty variant: the clamped sdf is added to the TSDF instead of averaged into it
UpdateVoxelSums(cell, key, v, frame, sdf_trunc) ==
  LET c == RigidTransform(VoxelWorld(key, v), frame.tz)
  IN IF c[3] <= 0 THEN cell
     ELSE LET p == Project(c)
          IN IF p \notin Pixels \/ c[3] > frame.depth_max THEN cell
             ELSE LET depth == frame.depth[p] \div frame.depth_scale
                      sdf == depth - c[3]
                  IN IF sdf < -sdf_trunc THEN cell
                     ELSE [cell EXCEPT
                             !.tsdf = Frac(cell.tsdf.n + cell.tsdf.d
                                             * Clamp(sdf, -sdf_trunc, sdf_trunc),
                                           cell.tsdf.d),
                             !.weight = cell.weight + 1]

\* One voxel's step of the integration pass: skip (no write) when the voxel
\* is behind the camera, projects outside the image, lies beyond depth_max or
\* has sdf < -sdf_trunc; otherwise the weighted running average with weight
\* increment 1.
UpdateVoxel(cell, key, v, frame, sdf_trunc) ==
  LET c == RigidTransform(VoxelWorld(key, v), frame.tz)
  IN IF c[3] <= 0 THEN cell
     ELSE LET p == Project(c)
          IN IF p \notin Pixels \/ c[3] > frame.depth_max THEN cell
             ELSE LET depth == frame.depth[p] \div frame.depth_scale
                      sdf == depth - c[3]
                  IN IF sdf < -sdf_trunc THEN cell
                     ELSE [tsdf |-> RunningAverage(cell.tsdf, cell.weight,
                                                   Clamp(sdf, -sdf_trunc, sdf_trunc)),
                           weight |-> cell.weight + 1,
                           color |-> RunningAverage(cell.color, cell.weight,
                                                    frame.color[p])]

\* The pass over buf_indices[i..]: every voxel of every listed block.  The
\* block's coordinate is read from the key tensor at the buffer index.  Two
\* entries with the same index update the block one after the other.  An
\* index that holds no key (never activated) leaves the block as it is;
\* Integrate never passes one: Find leaves an index of its own choosing only
\* for a key Activate could not insert, and then every index is active.
RECURSIVE IntegrateKernel(_, _, _, _, _, _)
IntegrateKernel(values, keys, buf_indices, i, frame, sdf_trunc) ==
  IF i > Len(buf_indices) THEN values
  ELSE LET s == buf_indices[i]
           block == IF keys[s] = NoKey THEN values[s]
                    ELSE [v \in Voxels |->
                            UpdateVoxel(values[s][v], keys[s], v, frame, sdf_trunc)]
       IN IntegrateKernel([values EXCEPT ![s] = block], keys, buf_indices,
                          i + 1, frame, sdf_trunc)

\* ---- VoxelBlockGrid operations ----
Range(f) == {f[i] : i \in DOMAIN f}

\* CheckBlockCoorinates, CheckDepthTensor, ...: the checks run in the order
\* of `inputs`; the first malformed tensor raises an error ("" when none does)
FirstMalformed(inputs, bad) ==
  IF \E i \in DOMAIN inputs : inputs[i] \in bad
  THEN inputs[CHOOSE i \in DOMAIN inputs :
                /\ inputs[i] \in bad
                /\ \A j \in 1..(i - 1) : inputs[j] \notin bad]
  ELSE ""

\* What the caller observes: a returned value or a thrown error, and whether
\* a warning was logged.
Void == [kind |-> "void"]
None == [kind |-> "none"]
Returned(op, arg, value) ==
  [op |-> op, arg |-> arg, threw |-> FALSE, error |-> "", warned |-> FALSE,
   value |-> value]
Threw(op, arg, error) ==
  [op |-> op, arg |-> arg, threw |-> TRUE, error |-> error, warned |-> FALSE,
   value |-> None]

\* Faulty variant: Find before Activate: the tensors hold what Find saw
FindThenActivate(bk, act, block_coords) ==
  UNION { { [keys |-> a.keys, active |-> a.active,
             buf_indices |-> [i \in DOMAIN block_coords |-> f[i].idx],
             masks |-> [i \in DOMAIN block_coords |-> f[i].mask]]
            : f \in Find(bk, act, block_coords) }
          : a \in Activate(bk, act, block_coords) }

\* Faulty variant: Activate alone: the tensors hold what Activate reported
ActivateWithoutFind(bk, act, block_coords) ==
  UNION { { [keys |-> a.keys, active |-> a.active,
             buf_indices |-> [i \in DOMAIN block_coords |-> f[i].idx],
             masks |-> [i \in DOMAIN block_coords |-> f[i].mask]]
            : f \in ActivateOutputs(a, block_coords) }
          : a \in Activate(bk, act, block_coords) }

\* Faulty variant: the hash map is cleared before every activation, as the scratch
\* map is before every touch pass
ClearThenActivate(bk, act, block_coords) ==
  UNION { { [keys |-> a.keys, active |-> a.active,
             buf_indices |-> [i \in DOMAIN block_coords |-> f[i].idx],
             masks |-> [i \in DOMAIN block_coords |-> f[i].mask]]
            : f \in Find(a.keys, a.active, block_coords) }
          : a \in Activate(Clear(bk, act).keys, Clear(bk, act).active,
                           block_coords) }

\* Integrate, lines 211-213: Activate, then Find into the same output tensors
ActivateThenFind(bk, act, block_coords) ==
  UNION { { [keys |-> a.keys, active |-> a.active,
             buf_indices |-> [i \in DOMAIN block_coords |-> f[i].idx],
             masks |-> [i \in DOMAIN block_coords |-> f[i].mask]]
            : f \in Find(a.keys, a.active, block_coords) }
          : a \in Activate(bk, act, block_coords) }

\* Faulty variant: the tensors are validated only after the blocks were activated
IntegrateCallChecksLate(bk, act, values, block_coords, frame, bad) ==
  IF FirstMalformed(IntegrateInputs, bad) # ""
  THEN { [threw |-> TRUE, error |-> FirstMalformed(IntegrateInputs, bad),
          keys |-> l.keys, active |-> l.active, values |-> values,
          buf_indices |-> <<>>, masks |-> <<>>]
         : l \in ActivateThenFind(bk, act, <<CHOOSE c \in Coords : TRUE>>) }
  ELSE { [threw |-> FALSE, error |-> "",
          keys |-> l.keys, active |-> l.active,
          values |-> IntegrateKernel(values, l.keys, l.buf_indices, 1, frame,
                                     (voxel_size_ * block_resolution_) \div 2),
          buf_indices |-> l.buf_indices, masks |-> l.masks]
         : l \in ActivateThenFind(bk, act, block_coords) }

\* Faulty variant: the voxels of every requested block are reset before the pass
IntegrateCallResetsValues(bk, act, values, block_coords, frame, bad) ==
  IF FirstMalformed(IntegrateInputs, bad) # ""
  THEN { [threw |-> TRUE, error |-> FirstMalformed(IntegrateInputs, bad),
          keys |-> bk, active |-> act, values |-> values,
          buf_indices |-> <<>>, masks |-> <<>>] }
  ELSE { [threw |-> FALSE, error |-> "",
          keys |-> l.keys, active |-> l.active,
          values |-> IntegrateKernel(
                       [s \in DOMAIN values |->
                          IF s \in Range(l.buf_indices)
                          THEN [v \in Voxels |-> EmptyCell] ELSE values[s]],
                       l.keys, l.buf_indices, 1, frame,
                       (voxel_size_ * block_resolution_) \div 2),
          buf_indices |-> l.buf_indices, masks |-> l.masks]
         : l \in ActivateThenFind(bk, act, block_coords) }

\* Faulty variant: trunc_multiplier is block_resolution_, without the 0.5
IntegrateCallBlockTrunc(bk, act, values, block_coords, frame, bad) ==
  IF FirstMalformed(IntegrateInputs, bad) # ""
  THEN { [threw |-> TRUE, error |-> FirstMalformed(IntegrateInputs, bad),
          keys |-> bk, active |-> act, values |-> values,
          buf_indices |-> <<>>, masks |-> <<>>] }
  ELSE { [threw |-> FALSE, error |-> "",
          keys |-> l.keys, active |-> l.active,
          values |-> IntegrateKernel(values, l.keys, l.buf_indices, 1, frame,
                                     voxel_size_ * block_resolution_),
          buf_indices |-> l.buf_indices, masks |-> l.masks]
         : l \in ActivateThenFind(bk, act, block_coords) }

\* Faulty variant: trunc_multiplier is block_resolution_ * 0.5 - 1, as in the
\* point-cloud touch pass
IntegrateCallTouchTrunc(bk, act, values, block_coords, frame, bad) ==
  IF FirstMalformed(IntegrateInputs, bad) # ""
  THEN { [threw |-> TRUE, error |-> FirstMalformed(IntegrateInputs, bad),
          keys |-> bk, active |-> act, values |-> values,
          buf_indices |-> <<>>, masks |-> <<>>] }
  ELSE { [threw |-> FALSE, error |-> "",
          keys |-> l.keys, active |-> l.active,
          values |-> IntegrateKernel(values, l.keys, l.buf_indices, 1, frame,
                                     (voxel_size_ * (block_resolution_ - 2)) \div 2),
          buf_indices |-> l.buf_indices, masks |-> l.masks]
         : l \in ActivateThenFind(bk, act, block_coords) }

\* Integrate: the outcomes of one call on the hash map (bk, act, values).
\* `bad` is the set of malformed input tensors: the five checks come first
\* and the first one that fails throws.
IntegrateCall(bk, act, values, block_coords, frame, bad) ==
  IF FirstMalformed(IntegrateInputs, bad) # ""
  THEN { [threw |-> TRUE, error |-> FirstMalformed(IntegrateInputs, bad),
          keys |-> bk, active |-> act, values |-> values,
          buf_indices |-> <<>>, masks |-> <<>>] }
  ELSE { [threw |-> FALSE, error |-> "",
          keys |-> l.keys, active |-> l.active,
          values |-> IntegrateKernel(values, l.keys, l.buf_indices, 1, frame,
                                     (voxel_size_ * block_resolution_) \div 2),
          buf_indices |-> l.buf_indices, masks |-> l.masks]
         : l \in ActivateThenFind(bk, act, block_coords) }

\* Integrate returns void: buf_indices and masks are locals of the call.
\* block_coords is drawn from `tensors` and the frame from `frames`.
IntegrateFrames(tensors, frames) ==
  /\ \E bad \in Malformed(IntegrateInputs) :
     \E block_coords \in IF bad = {}
                         THEN {q \in tensors : work + 1 + Len(q) <= MaxWork}
                         ELSE {<<>>},
        frame \in IF bad = {} THEN frames ELSE {NoFrame} :
       \E o \in IntegrateCall(block_keys, active, block_values,
                              block_coords, frame, bad) :
          /\ block_keys' = o.keys
          /\ active' = o.active
          /\ block_values' = o.values
          /\ local' = IF o.threw THEN local
                      ELSE [block_coords |-> block_coords, frame |-> frame,
                            buf_indices |-> o.buf_indices, masks |-> o.masks,
                            was_empty |-> active = {}]
          /\ ret' = IF o.threw THEN Threw("Integrate", bad, o.error)
                    ELSE Returned("Integrate", bad, Void)
          /\ work' = IF o.threw THEN work ELSE work + 1 + Len(block_coords)
          /\ UNCHANGED <<capacity, frustum, pass, kernel>>

\* Integrate with block_coords drawn from `tensors` and any frame
IntegrateWith(tensors) == IntegrateFrames(tensors, Frames)

\* Integrate with any tensor of block coordinates, duplicates included
Integrate == IntegrateWith(CoordSeqs)

\* ---- the integration pass, one workload at a time ----
\* The kernel is launched over one workload per (entry of buf_indices, voxel),
\* numbered entry by entry.  Each parallel worker runs its share of the
\* workloads in order; the workers interleave in any way.  A worker's
\* read-modify-write of its voxel is one step.
Workers == 1..MaxWorkers

\* tensors with a coordinate listed twice, and with one coordinate
PassCoordSeqs == {<<c, c>> : c \in {<<0, 0, 0>>}} \cup {<<<<0, 0, 1>>>>}

VoxelsPerBlock == block_resolution_ * block_resolution_ * block_resolution_

\* workload j: the entry of buf_indices and the voxel of its block
Workload(j) ==
  LET n == (j - 1) % VoxelsPerBlock
  IN << (j - 1) \div VoxelsPerBlock + 1,
        << n % block_resolution_,
           (n \div block_resolution_) % block_resolution_,
           n \div (block_resolution_ * block_resolution_) >> >>

\* the ways n workloads are shared out: in contiguous chunks, or in strides
Shares(n) ==
  LET all == [j \in 1..n |-> j]
      Chunk(k) == SelectSeq(all, LAMBDA j : ((j - 1) * MaxWorkers) \div n = k - 1)
      Stride(k) == SelectSeq(all, LAMBDA j : (j - 1) % MaxWorkers = k - 1)
  IN { [k \in Workers |-> [x \in DOMAIN Chunk(k) |-> Workload(Chunk(k)[x])]],
       [k \in Workers |-> [x \in DOMAIN Stride(k) |-> Workload(Stride(k)[x])]] }

\* Faulty variant: the worker computes its update from the value the voxel
\* had when the pass was launched (a read that missed another worker's write)
RunWorkloadStale(values, before, keys, s, v, frame, sdf_trunc) ==
  [values EXCEPT ![s][v] = UpdateVoxel(before[s][v], keys[s], v, frame,
                                        sdf_trunc)]

\* one workload: the read-modify-write of voxel v of the block at slot s
RunWorkload(values, before, keys, s, v, frame, sdf_trunc) ==
  [values EXCEPT ![s][v] = UpdateVoxel(values[s][v], keys[s], v, frame,
                                        sdf_trunc)]

\* Integrate up to the kernel launch: Activate, Find, and the workloads
IntegrateLaunch ==
  /\ ~pass.running
  /\ \E block_coords \in {q \in PassCoordSeqs : work + 1 + Len(q) <= MaxWork},
        frame \in Frames :
       \E l \in ActivateThenFind(block_keys, active, block_coords),
          share \in Shares(Len(block_coords) * VoxelsPerBlock) :
          /\ block_keys' = l.keys
          /\ active' = l.active
          /\ local' = [block_coords |-> block_coords, frame |-> frame,
                       buf_indices |-> l.buf_indices, masks |-> l.masks,
                       was_empty |-> active = {}]
          /\ pass' = [running |-> TRUE, before |-> block_values,
                      share |-> share, pos |-> [k \in Workers |-> 0]]
  /\ UNCHANGED <<capacity, block_values, frustum, ret, work, kernel>>

\* a worker runs the next workload of its share
Worker ==
  /\ pass.running
  /\ \E k \in Workers :
       /\ pass.pos[k] < Len(pass.share[k])
       /\ LET w == pass.share[k][pass.pos[k] + 1]
          IN block_values' =
               RunWorkload(block_values, pass.before, block_keys,
                           local.buf_indices[w[1]], w[2], local.frame,
                           (voxel_size_ * block_resolution_) \div 2)
       /\ pass' = [pass EXCEPT !.pos[k] = pass.pos[k] + 1]
  /\ UNCHANGED <<capacity, block_keys, active, frustum, local, ret, work,
               kernel>>

\* every worker has finished its share: Integrate returns
IntegrateJoin ==
  /\ pass.running
  /\ \A k \in Workers : pass.pos[k] = Len(pass.share[k])
  /\ pass' = [pass EXCEPT !.running = FALSE]
  /\ ret' = Returned("Integrate", {}, Void)
  /\ work' = work + 1 + Len(local.block_coords)
  /\ UNCHANGED <<grid, frustum, local, kernel>>

\* Integrate with the block coordinates a touch pass returns: each one once
IntegrateTouched ==
  IntegrateWith({q \in CoordSeqs : \A i, j \in DOMAIN q : q[i] = q[j] => i = j})

\* GetAttribute: a warning for an unknown name, then name_attr_map_.at(name),
\* which throws std::out_of_range for a name that is no key of the map.
GetAttributeCall(attr_name) ==
  LET warned == attr_name \notin DOMAIN name_attr_map_
  IN IF attr_name \notin DOMAIN name_attr_map_
     THEN [op |-> "GetAttribute", arg |-> attr_name, threw |-> TRUE,
           error |-> "out_of_range", warned |-> warned, value |-> None]
     ELSE [op |-> "GetAttribute", arg |-> attr_name, threw |-> FALSE,
           error |-> "", warned |-> warned,
           value |-> [kind |-> "tensor", buffer |-> name_attr_map_[attr_name]]]

GetAttribute ==
  /\ \E attr_name \in Range(AttrNames) \cup UnknownAttrs :
       ret' = GetAttributeCall(attr_name)
  /\ UNCHANGED <<grid, frustum, local, work, pass, kernel>>

\* ---- ray casting ----
\* virtual cameras: extrinsic translation, depth_scale, depth range and
\* weight_threshold; width and height are those of Pixels
Views ==
  { [tz |-> 1, depth_scale |-> 2, depth_min |-> 0, depth_max |-> 8,
     weight_threshold |-> 1],
    [tz |-> -3, depth_scale |-> 1, depth_min |-> 1, depth_max |-> 6,
     weight_threshold |-> 2] }

\* block_coords tensors handed to RayCast
ViewCoordSeqs ==
  {<<>>, <<<<0, 0, 0>>>>, <<<<0, 0, 0>>, <<0, 0, 1>>>>}

\* a frame whose surface lies between two voxel centres of the optical axis
MarchFrames ==
  { [depth |-> [p \in Pixels |-> 4], color |-> [p \in Pixels |-> 1],
     tz |-> 1, depth_scale |-> 1, depth_max |-> 8] }

\* what freshly allocated, uninitialised float memory may hold
Garbage == {0, 99}

\* corners of the voxel cell around a point, as offsets
Corners == {0, 1} \X {0, 1} \X {0, 1}

\* kernel::tsdf::EstimateRange: the depth range [min, max) within which the
\* listed blocks lie in front of the camera, clipped to the depth range of
\* the view; the image is covered by one cell of the down-sampled range map.
EstimateRange(block_coords, view) ==
  LET size == block_resolution_ * voxel_size_
      near == {block_coords[i][3] * size + view.tz : i \in DOMAIN block_coords}
  IN IF near = {} THEN [min |-> 0, max |-> 0]
     ELSE [min |-> Max(view.depth_min,
                       CHOOSE z \in near : \A y \in near : z <= y),
           max |-> Min(view.depth_max,
                       (CHOOSE z \in near : \A y \in near : z >= y) + size)]

\* the voxel with global index g, resolved through the block index
ResolveVoxel(values, bk, act, g, weight_threshold) ==
  LET key == [a \in 1..3 |-> g[a] \div block_resolution_]
      loc == [a \in 1..3 |-> g[a] % block_resolution_]
      slots == SlotsOf(bk, act, key)
  IN IF slots = {}
     THEN [allocated |-> FALSE, valid |-> FALSE, slot |-> -1, loc |-> loc,
           cell |-> EmptyCell]
     ELSE LET s == CHOOSE x \in slots : TRUE
          IN [allocated |-> TRUE,
              valid |-> values[s][loc].weight >= weight_threshold,
              slot |-> s, loc |-> loc, cell |-> values[s][loc]]

\* voxel-space position, per axis, of the point at depth t on the ray of pixel p
RayPoint(p, t, view) ==
  << Frac((p[1] - Intrinsic.cx) * t.n, Intrinsic.fx * t.d * voxel_size_),
     Frac((p[2] - Intrinsic.cy) * t.n, Intrinsic.fy * t.d * voxel_size_),
     Frac(t.n - view.tz * t.d, t.d * voxel_size_) >>

\* Faulty variant: a step in an unallocated block is read as free space
RECURSIVE MarchUnknownAsFree(_, _, _, _, _, _, _, _)
MarchUnknownAsFree(values, bk, act, p, view, t, t_max, prev) ==
  IF t >= t_max THEN [hit |-> FALSE]
  ELSE LET q == RayPoint(p, FInt(t), view)
           r == ResolveVoxel(values, bk, act, [a \in 1..3 |-> Floor(q[a])],
                             view.weight_threshold)
       IN IF ~r.valid
          THEN MarchUnknownAsFree(values, bk, act, p, view, t + voxel_size_,
                                  t_max, [has |-> TRUE, t |-> t, tsdf |-> One])
          ELSE IF prev.has /\ prev.tsdf.n > 0 /\ r.cell.tsdf.n <= 0
          THEN [hit |-> TRUE, t_prev |-> prev.t, t |-> t,
                tsdf_prev |-> prev.tsdf, tsdf |-> r.cell.tsdf]
          ELSE MarchUnknownAsFree(values, bk, act, p, view, t + voxel_size_,
                                  t_max,
                                  [has |-> TRUE, t |-> t, tsdf |-> r.cell.tsdf])

\* Marching the ray of pixel p from depth t to t_max in steps of voxel_size.
\* A step in an unallocated block, or on a voxel below the weight threshold,
\* contributes nothing.  The surface is the first step whose TSDF is not
\* positive while the TSDF of the last resolved step was.
RECURSIVE March(_, _, _, _, _, _, _, _)
March(values, bk, act, p, view, t, t_max, prev) ==
  IF t >= t_max THEN [hit |-> FALSE]
  ELSE LET q == RayPoint(p, FInt(t), view)
           r == ResolveVoxel(values, bk, act, [a \in 1..3 |-> Floor(q[a])],
                             view.weight_threshold)
       IN IF ~r.valid
          THEN March(values, bk, act, p, view, t + voxel_size_, t_max, prev)
          ELSE IF prev.has /\ prev.tsdf.n > 0 /\ r.cell.tsdf.n <= 0
          THEN [hit |-> TRUE, t_prev |-> prev.t, t |-> t,
                tsdf_prev |-> prev.tsdf, tsdf |-> r.cell.tsdf]
          ELSE March(values, bk, act, p, view, t + voxel_size_, t_max,
                     [has |-> TRUE, t |-> t, tsdf |-> r.cell.tsdf])

\* One pixel of the rendering.  `alloc` holds what the wrapper allocated for
\* the pixel; a pixel without a crossing is left as allocated.  At a
\* crossing the depth is interpolated between the two steps and colour and
\* normal are interpolated trilinearly from the 8 voxels around the surface
\* point; mask, ratio and index describe those 8 voxels.
RayCastPixel(values, bk, act, p, range, view, alloc) ==
  LET m == March(values, bk, act, p, view, range.min, range.max,
                 [has |-> FALSE, t |-> 0, tsdf |-> Zero])
  IN IF ~m.hit THEN alloc
     ELSE
       LET t == FAdd(FInt(m.t_prev),
                     FMul(FInt(m.t - m.t_prev),
                          FDiv(m.tsdf_prev, FSub(m.tsdf_prev, m.tsdf))))
           q == RayPoint(p, t, view)
           base == [a \in 1..3 |-> Floor(q[a])]
           f == [a \in 1..3 |-> FSub(q[a], FInt(base[a]))]
           vox == [k \in Corners |->
                     ResolveVoxel(values, bk, act,
                                  [a \in 1..3 |-> base[a] + k[a]],
                                  view.weight_threshold)]
           ratio == [k \in Corners |->
                       FMul(FMul(IF k[1] = 1 THEN f[1] ELSE FSub(One, f[1]),
                                 IF k[2] = 1 THEN f[2] ELSE FSub(One, f[2])),
                            IF k[3] = 1 THEN f[3] ELSE FSub(One, f[3]))]
           valid == {k \in Corners : vox[k].valid}
           total == FSum(valid, ratio)
           blend(g) == IF total.n = 0 THEN Zero
                       ELSE FDiv(FSum(valid, [k \in Corners |->
                                                FMul(ratio[k], g[k])]), total)
           slope(a) ==
             FSum({k \in valid : k[a] = 1 /\ [k EXCEPT ![a] = 0] \in valid},
                  [k \in Corners |->
                     FSub(vox[k].cell.tsdf, vox[[k EXCEPT ![a] = 0]].cell.tsdf)])
       IN [depth |-> FMul(t, FInt(view.depth_scale)),
           vertex |-> [a \in 1..3 |-> FMul(q[a], FInt(voxel_size_))],
           color |-> blend([k \in Corners |-> vox[k].cell.color]),
           normal |-> [a \in 1..3 |-> slope(a)],
           mask |-> [k \in Corners |-> vox[k].valid],
           ratio |-> [k \in Corners |->
                        IF vox[k].valid THEN ratio[k] ELSE alloc.ratio[k]],
           index |-> [k \in Corners |->
                        IF vox[k].valid
                        THEN ((vox[k].slot * block_resolution_ + vox[k].loc[3])
                                * block_resolution_ + vox[k].loc[2])
                                * block_resolution_ + vox[k].loc[1]
                        ELSE alloc.index[k]]]

\* RayCast, lines 248-267: vertex, depth, color, normal, ratio and index are
\* allocated uninitialised (their elements hold `junk`), mask is zero-filled.
AllocatedPixel(junk) ==
  [depth |-> FInt(junk),
   vertex |-> [a \in 1..3 |-> FInt(junk)],
   color |-> FInt(junk),
   normal |-> [a \in 1..3 |-> FInt(junk)],
   mask |-> [k \in Corners |-> FALSE],
   ratio |-> [k \in Corners |-> FInt(junk)],
   index |-> [k \in Corners |-> junk]]

\* RayCast: the checks, the range estimate, the allocation of the maps and
\* the kernel
RayCastCall(values, bk, act, block_coords, view, bad, junk) ==
  IF FirstMalformed(RayCastInputs, bad) # ""
  THEN Threw("RayCast", [bad |-> bad],
             FirstMalformed(RayCastInputs, bad))
  ELSE LET range == EstimateRange(block_coords, view)
       IN Returned("RayCast",
                   [bad |-> bad, block_coords |-> block_coords, view |-> view],
                   [kind |-> "renderings",
                    range |-> range,
                    maps |-> [p \in Pixels |->
                                RayCastPixel(values, bk, act, p, range, view,
                                             AllocatedPixel(junk))]])

\* RayCast with block_coords drawn from `tensors` and the camera from `views`
RayCastWith(tensors, views) ==
  /\ \E bad \in Malformed(RayCastInputs) :
     \E block_coords \in IF bad = {} THEN tensors ELSE {<<>>},
        view \in IF bad = {} THEN views ELSE {CHOOSE w \in views : TRUE},
        junk \in IF bad = {} THEN Garbage ELSE {0} :
       ret' = RayCastCall(block_values, block_keys, active, block_coords,
                          view, bad, junk)
  /\ UNCHANGED <<grid, frustum, local, work, pass, kernel>>

RayCast == RayCastWith(ViewCoordSeqs, Views)

\* ---- the touch pass (GetUniqueBlockCoordinates) ----
\* stride of the depth touch pass and the oversubscription multipliers
down_factor == 4
est_sample_multiplier == 4
est_neighbor_multiplier == 8

\* Depth images handed to the touch pass: columns, rows and the depth at the
\* pixels the pass samples (every down_factor-th column and row).
SampledPixels(cols, rows) ==
  {<<down_factor * i, down_factor * j>> :
     i \in 0..((cols \div down_factor) - 1), j \in 0..((rows \div down_factor) - 1)}
DepthImages ==
  { [cols |-> 2, rows |-> 1, depth |-> [p \in SampledPixels(2, 1) |-> 6]],
    [cols |-> 4, rows |-> 4, depth |-> [p \in SampledPixels(4, 4) |-> 6]],
    [cols |-> 4, rows |-> 4, depth |-> [p \in SampledPixels(4, 4) |-> 14]],
    [cols |-> 8, rows |-> 4,
     depth |-> [p \in SampledPixels(8, 4) |-> IF p[1] = 0 THEN 6 ELSE 2]] }
\* extrinsic (translation along the optical axis), depth_scale, depth_max
TouchViews == { [tz |-> 0, depth_scale |-> 1, depth_max |-> 16] }

\* Point clouds handed to the touch pass: point positions in world units
PointClouds ==
  { <<>>,
    << <<0, 0, 1>> >>,
    << <<0, 0, 1>>, <<1, 1, 3>> >>,
    << <<0, 0, 9>>, <<0, 0, 1>> >>,
    << <<0, 0, 1>>, <<0, 0, 5>>, <<0, 0, 9>>, <<0, 0, 13>>, <<0, 0, 17>> >>,
    << <<0, 0, 17>>, <<0, 0, 13>>, <<0, 0, 9>>, <<0, 0, 5>>, <<0, 0, 1>> >> }

TouchDepthInputs == <<"depth", "intrinsic", "extrinsic">>

\* block that holds the world position w
BlockOf(w) == [a \in 1..3 |-> w[a] \div (voxel_size_ * block_resolution_)]

\* kernel::voxel_grid::DepthTouch, one sampled pixel: the pixel is unprojected
\* at the depths from depth - sdf_trunc to depth + sdf_trunc, one voxel apart,
\* and each position is mapped to its block.
DepthTouchPixel(p, image, view, sdf_trunc) ==
  LET d == image.depth[p] \div view.depth_scale
      steps == {d - sdf_trunc + voxel_size_ * k :
                  k \in 0..((2 * sdf_trunc) \div voxel_size_)}
  IN { BlockOf(<< ((p[1] - Intrinsic.cx) * t) \div Intrinsic.fx,
                  ((p[2] - Intrinsic.cy) * t) \div Intrinsic.fy,
                  t - view.tz >>) : t \in steps }

\* the block coordinates a depth image touches, one entry per insertion
DepthTouched(image, view, sdf_trunc) ==
  UNION { DepthTouchPixel(p, image, view, sdf_trunc)
          : p \in SampledPixels(image.cols, image.rows) }

\* kernel::voxel_grid::PointCloudTouch, one point: the blocks of the corners
\* of the box of half-width sdf_trunc around the point
PointTouched(w, sdf_trunc) ==
  { BlockOf([a \in 1..3 |-> w[a] + e[a] * sdf_trunc]) :
      e \in {-1, 1} \X {-1, 1} \X {-1, 1} }
PointCloudTouched(positions, sdf_trunc) ==
  UNION { PointTouched(positions[i], sdf_trunc) : i \in DOMAIN positions }

\* Insert-if-absent of every coordinate of todo into the scratch index, the
\* insertions taken in any order: the key sets the index may end with.  An
\* insertion into a full index fails and changes nothing.
RECURSIVE InsertKeys(_, _, _)
InsertKeys(keys, cap, todo) ==
  IF todo = {} THEN {keys}
  ELSE UNION { IF k \in keys \/ Cardinality(keys) >= cap
               THEN InsertKeys(keys, cap, todo \ {k})
               ELSE InsertKeys(keys \cup {k}, cap, todo \ {k})
               : k \in todo }

\* every ordering of the set S as a list
RECURSIVE Orderings(_)
Orderings(S) ==
  IF S = {} THEN {<<>>}
  ELSE UNION { {<<x>> \o q : q \in Orderings(S \ {x})} : x \in S }

\* Faulty variant: a scratch index that exists is reused as it is, not cleared
ScratchKeepsKeys(fr, cap) ==
  IF fr.null
  THEN [null |-> FALSE, capacity |-> cap, keys |-> {}, element_shape |-> <<1>>]
  ELSE fr

\* Faulty variant: the scratch index is made anew, at the capacity the input
\* asks for, by every call
ScratchRebuilt(fr, cap) ==
  [null |-> FALSE, capacity |-> cap, keys |-> {}, element_shape |-> <<1>>]

\* frustum_hashmap_ as the kernel receives it: created with capacity `cap`
\* (an Int32 value of shape {1} per key) when it is nullptr, cleared otherwise
ScratchReady(fr, cap) ==
  IF fr.null
  THEN [null |-> FALSE, capacity |-> cap, keys |-> {}, element_shape |-> <<1>>]
  ELSE [fr EXCEPT !.keys = {}]

\* The kernel's part of a touch pass: the touched coordinates are inserted
\* into the scratch index and its keys are returned as a list, in any order.
TouchKeySets(fr, touched) == InsertKeys(fr.keys, fr.capacity, touched)
TouchKernel(fr, touched) ==
  UNION { { [frustum |-> [fr EXCEPT !.keys = keys], coords |-> q]
            : q \in Orderings(keys) }
          : keys \in TouchKeySets(fr, touched) }

\* the capacity a new scratch index is given, and the truncation margins
DepthCapacity(image) ==
  (image.cols \div down_factor) * (image.rows \div down_factor)
    * est_sample_multiplier
PointCloudCapacity(positions) == Len(positions) * est_neighbor_multiplier
DepthTrunc == (voxel_size_ * block_resolution_) \div 2
PointCloudTrunc == (voxel_size_ * block_resolution_) \div 2 - voxel_size_

\* GetUniqueBlockCoordinates(depth, intrinsic, extrinsic, depth_scale,
\* depth_max): the outcomes of one call
DepthTouchCall(bk, act, fr, image, view, bad) ==
  IF FirstMalformed(TouchDepthInputs, bad) # ""
  THEN { [keys |-> bk, active |-> act, frustum |-> fr,
          ret |-> Threw("GetUniqueBlockCoordinates",
                        [overload |-> "depth", bad |-> bad],
                        FirstMalformed(TouchDepthInputs, bad))] }
  ELSE LET cap == DepthCapacity(image)
           sdf_trunc == DepthTrunc
       IN { [keys |-> bk, active |-> act, frustum |-> o.frustum,
             ret |-> Returned("GetUniqueBlockCoordinates",
                              [overload |-> "depth", bad |-> bad,
                               image |-> image, view |-> view],
                              [kind |-> "block_coords", coords |-> o.coords])]
            : o \in TouchKernel(ScratchReady(fr, cap),
                                DepthTouched(image, view, sdf_trunc)) }

\* Faulty variant: the touched coordinates are activated in block_hashmap_ too
PointCloudTouchCallActivates(bk, act, fr, positions) ==
  UNION { { [keys |-> a.keys, active |-> a.active, frustum |-> o.frustum,
             ret |-> Returned("GetUniqueBlockCoordinates",
                              [overload |-> "pcd", bad |-> {},
                               positions |-> positions],
                              [kind |-> "block_coords", coords |-> o.coords])]
            : a \in Activate(bk, act, o.coords) }
          : o \in TouchKernel(ScratchReady(fr, PointCloudCapacity(positions)),
                              PointCloudTouched(positions, PointCloudTrunc)) }

\* GetUniqueBlockCoordinates(pcd): the outcomes of one call.  The kernel is
\* handed frustum_hashmap_; block_hashmap_ (bk, act) is only asked its device.
PointCloudTouchCall(bk, act, fr, positions) ==
  LET cap == PointCloudCapacity(positions)
      sdf_trunc == PointCloudTrunc
  IN { [keys |-> bk, active |-> act, frustum |-> o.frustum,
        ret |-> Returned("GetUniqueBlockCoordinates",
                         [overload |-> "pcd", bad |-> {}, positions |-> positions],
                         [kind |-> "block_coords", coords |-> o.coords])]
       : o \in TouchKernel(ScratchReady(fr, cap),
                           PointCloudTouched(positions, sdf_trunc)) }

\* the depth overload on an image drawn from `images`
DepthTouchWith(images) ==
  /\ \E bad \in Malformed(TouchDepthInputs) :
     \E image \in IF bad = {} THEN images ELSE {CHOOSE m \in images : TRUE},
        view \in TouchViews :
       \E o \in DepthTouchCall(block_keys, active, frustum, image, view, bad) :
          /\ block_keys' = o.keys
          /\ active' = o.active
          /\ frustum' = o.frustum
          /\ ret' = o.ret
  /\ UNCHANGED <<capacity, block_values, local, work, pass, kernel>>

\* the point-cloud overload on a cloud drawn from `clouds`
PointCloudTouchWith(clouds) ==
  /\ \E positions \in clouds :
       \E o \in PointCloudTouchCall(block_keys, active, frustum, positions) :
          /\ block_keys' = o.keys
          /\ active' = o.active
          /\ frustum' = o.frustum
          /\ ret' = o.ret
  /\ UNCHANGED <<capacity, block_values, local, work, pass, kernel>>

GetUniqueBlockCoordinatesDepth == DepthTouchWith(DepthImages)
GetUniqueBlockCoordinatesPointCloud == PointCloudTouchWith(PointClouds)

\* ---- voxel enumeration (GetVoxelIndices, GetVoxelCoordinates) ----
\* HashMap::GetActiveIndices: the active buffer indices, each once, in any order
GetActiveIndices(act) == Orderings(act)

\* Faulty variant: voxel_y is taken from the remainder without removing the
\* z part first
GetVoxelIndicesCallKeepsZ(active_buf_indices) ==
  LET n_blocks == Len(active_buf_indices)
      resolution == block_resolution_
      resolution2 == resolution * resolution
      resolution3 == resolution2 * resolution
      linear_coordinates == [i \in 0..(n_blocks * resolution3 - 1) |-> i]
      block_idx == [i \in DOMAIN linear_coordinates |->
                      linear_coordinates[i] \div resolution3]
      remainder == [i \in DOMAIN linear_coordinates |->
                      linear_coordinates[i] - block_idx[i] * resolution3]
      voxel_z == [i \in DOMAIN remainder |-> remainder[i] \div resolution2]
      voxel_y == [i \in DOMAIN remainder |-> remainder[i] \div resolution]
      voxel_x == [i \in DOMAIN remainder |->
                    remainder[i] - (remainder[i] \div resolution) * resolution]
  IN << [i \in DOMAIN block_idx |-> active_buf_indices[block_idx[i] + 1]],
        voxel_x, voxel_y, voxel_z >>

\* GetVoxelIndices, lines 112-140: the 4 x N tensor (buffer index, x, y, z)
\* computed from the linear coordinates 0 .. n_blocks * resolution^3 - 1.
\* The rows are <<row 0, row 1, row 2, row 3>>, each indexed from 0.
GetVoxelIndicesCall(active_buf_indices) ==
  LET n_blocks == Len(active_buf_indices)
      resolution == block_resolution_
      resolution2 == resolution * resolution
      resolution3 == resolution2 * resolution
      linear_coordinates == [i \in 0..(n_blocks * resolution3 - 1) |-> i]
      block_idx == [i \in DOMAIN linear_coordinates |->
                      linear_coordinates[i] \div resolution3]
      remainder == [i \in DOMAIN linear_coordinates |->
                      linear_coordinates[i] - block_idx[i] * resolution3]
      voxel_z == [i \in DOMAIN remainder |-> remainder[i] \div resolution2]
      voxel_y == [i \in DOMAIN remainder |->
                    (remainder[i] - voxel_z[i] * resolution2) \div resolution]
      voxel_x == [i \in DOMAIN remainder |->
                    remainder[i] - (remainder[i] \div resolution) * resolution]
  IN << [i \in DOMAIN block_idx |-> active_buf_indices[block_idx[i] + 1]],
        voxel_x, voxel_y, voxel_z >>

\* GetVoxelCoordinates, lines 95-104: key_tensor[voxel_indices[0]] times
\* block_resolution_, plus the local offsets, as a 3 x N tensor
GetVoxelCoordinatesCall(key_tensor, voxel_indices) ==
  [a \in 1..3 |->
     [i \in DOMAIN voxel_indices[1] |->
        key_tensor[voxel_indices[1][i]][a] * block_resolution_
          + voxel_indices[a + 1][i]]]

GetVoxelIndices ==
  /\ \E active_buf_indices \in GetActiveIndices(active) :
       ret' = Returned("GetVoxelIndices", "",
                       [kind |-> "voxel_indices",
                        indices |-> GetVoxelIndicesCall(active_buf_indices)])
  /\ UNCHANGED <<grid, frustum, local, work, pass, kernel>>

\* GetVoxelCoordinates on the tensor GetVoxelIndices just returned
GetVoxelCoordinates ==
  /\ ret.op = "GetVoxelIndices"
  /\ ret' = Returned("GetVoxelCoordinates", ret.value.indices,
                     [kind |-> "voxel_coords",
                      coords |-> GetVoxelCoordinatesCall(block_keys,
                                                         ret.value.indices)])
  /\ UNCHANGED <<grid, frustum, local, work, pass, kernel>>

\* ---- surface extraction (BufferRadiusNeighbors, ExtractSurfacePoints) ----
\* HashMap::Find of one key: its buffer index with mask true, or mask false;
\* the index left for an absent key is unspecified and is not represented
FindOne(bk, act, k) ==
  IF Present(bk, act, k)
  THEN [mask |-> TRUE, idx |-> CHOOSE x \in SlotsOf(bk, act, k) : TRUE]
  ELSE [mask |-> FALSE]

\* Faulty variant: the row number is decoded with x as the slowest axis
KeysNbXSlowest(bk, active_buf_indices) ==
  LET active_keys == [i \in DOMAIN active_buf_indices |-> bk[active_buf_indices[i]]]
  IN [nb \in 0..26 |->
        LET dx == nb \div 9
            dy == (nb % 9) \div 3
            dz == nb % 3
        IN [i \in DOMAIN active_keys |->
              << active_keys[i][1] + dx - 1, active_keys[i][2] + dy - 1,
                 active_keys[i][3] + dz - 1 >>]]

\* keys_nb of BufferRadiusNeighbors, lines 290-303, as {27, n, 3}: row nb
\* holds the active keys moved by (dx - 1, dy - 1, dz - 1)
KeysNb(bk, active_buf_indices) ==
  LET active_keys == [i \in DOMAIN active_buf_indices |-> bk[active_buf_indices[i]]]
  IN [nb \in 0..26 |->
        LET dz == nb \div 9
            dy == (nb % 9) \div 3
            dx == nb % 3
        IN [i \in DOMAIN active_keys |->
              << active_keys[i][1] + dx - 1, active_keys[i][2] + dy - 1,
                 active_keys[i][3] + dz - 1 >>]]

\* BufferRadiusNeighbors, lines 282-311: for nb in 0..26 and every active
\* block i, the lookup of the key of block i moved by (dx - 1, dy - 1, dz - 1)
BufferRadiusNeighbors(bk, act, active_buf_indices) ==
  LET keys_nb == KeysNb(bk, active_buf_indices)
  IN [nb \in 0..26 |->
        [i \in DOMAIN active_buf_indices |-> FindOne(bk, act, keys_nb[nb][i])]]

\* the voxel at local offset loc (each component in -1 .. block_resolution_)
\* seen from active block i, resolved through the neighbour table
NeighborVoxel(values, active_buf_indices, nbs, i, loc) ==
  LET d == [a \in 1..3 |-> loc[a] \div block_resolution_]
      inner == <<loc[1] % block_resolution_, loc[2] % block_resolution_,
                 loc[3] % block_resolution_>>
      nb == (d[3] + 1) * 9 + (d[2] + 1) * 3 + (d[1] + 1)
      e == nbs[nb][i]
  IN IF e.mask THEN [found |-> TRUE, cell |-> values[e.idx][inner]]
     ELSE [found |-> FALSE, cell |-> EmptyCell]

\* s1 and s2 lie on different sides of the surface
SignChange(t1, t2) == (t1.n > 0) # (t2.n > 0)

\* kernel::voxel_grid::ExtractSurfacePoints, one voxel v of active block i and
\* one axis a: there is a crossing when the voxel and its successor along the
\* axis both have weight >= weight_threshold and their TSDF changes sign.
IsCrossing(values, active_buf_indices, nbs, weight_threshold, i, v, a) ==
  LET o == values[active_buf_indices[i]][v]
      n == NeighborVoxel(values, active_buf_indices, nbs, i,
                         [v EXCEPT ![a] = v[a] + 1])
  IN /\ o.weight >= weight_threshold
     /\ n.found
     /\ n.cell.weight >= weight_threshold
     /\ SignChange(o.tsdf, n.cell.tsdf)

\* the surface point of a crossing and its colour, interpolated on the edge
SurfacePoint(values, bk, active_buf_indices, nbs, i, v, a) ==
  LET key == bk[active_buf_indices[i]]
      o == values[active_buf_indices[i]][v]
      n == NeighborVoxel(values, active_buf_indices, nbs, i,
                         [v EXCEPT ![a] = v[a] + 1]).cell
      r == FQuot(o.tsdf, FSub(o.tsdf, n.tsdf))
  IN [position |->
        [b \in 1..3 |->
           LET base == FInt((key[b] * block_resolution_ + v[b]) * voxel_size_)
           IN IF b = a THEN FAdd(base, FMul(FInt(voxel_size_), r)) ELSE base],
      color |-> FAdd(FMul(FSub(One, r), o.color), FMul(r, n.color))]

\* the crossings of the grid
SurfaceCrossings(values, bk, active_buf_indices, nbs, weight_threshold) ==
  UNION { { SurfacePoint(values, bk, active_buf_indices, nbs, i, x[1], x[2])
            : x \in { y \in Voxels \X (1..3) :
                        IsCrossing(values, active_buf_indices, nbs,
                                   weight_threshold, i, y[1], y[2]) } }
          : i \in DOMAIN active_buf_indices }

\* a set as a list, in a fixed order
RECURSIVE Listed(_)
Listed(S) ==
  IF S = {} THEN <<>>
  ELSE LET x == CHOOSE y \in S : TRUE IN <<x>> \o Listed(S \ {x})

\* The kernel's output: at most estimated_number of the crossings, whichever
\* the workers emit first, as the tensors points and colors.
ExtractKernel(crossings, estimated_number) ==
  { [points |-> [i \in DOMAIN Listed(e) |-> Listed(e)[i].position],
     colors |-> [i \in DOMAIN Listed(e) |-> Listed(e)[i].color]]
    : e \in { x \in SUBSET crossings :
                Cardinality(x) = Min(Cardinality(crossings), estimated_number) } }

\* Tensor::Slice(0, start, stop) for 0 <= start: the rows start .. stop - 1
\* that exist
Slice(t, start, stop) == SubSeq(t, start + 1, Min(stop, Len(t)))

\* Faulty variant: every crossing is emitted and the tensors are not cut to
\* the budget
ExtractSurfacePointsCallUnbounded(values, bk, active_buf_indices, estimated_number, weight_threshold) ==
  LET nbs == BufferRadiusNeighbors(bk, Range(active_buf_indices),
                                   active_buf_indices)
      crossings == SurfaceCrossings(values, bk, active_buf_indices, nbs,
                                    weight_threshold)
  IN { Returned("ExtractSurfacePoints",
                [estimated_number |-> estimated_number,
                 weight_threshold |-> weight_threshold],
                [kind |-> "pcd", points |-> k.points, colors |-> k.colors])
       : k \in ExtractKernel(crossings, Cardinality(crossings)) }

\* ExtractSurfacePoints, lines 313-337: the active indices, their neighbour
\* table, the kernel, and the slices [0, estimated_number) of its outputs
ExtractSurfacePointsCall(values, bk, active_buf_indices, estimated_number, weight_threshold) ==
  LET nbs == BufferRadiusNeighbors(bk, Range(active_buf_indices),
                                   active_buf_indices)
      crossings == SurfaceCrossings(values, bk, active_buf_indices, nbs,
                                    weight_threshold)
  IN { Returned("ExtractSurfacePoints",
                [estimated_number |-> estimated_number,
                 weight_threshold |-> weight_threshold],
                [kind |-> "pcd",
                 points |-> Slice(k.points, 0, estimated_number),
                 colors |-> Slice(k.colors, 0, estimated_number)])
       : k \in ExtractKernel(crossings, estimated_number) }

\* ExtractSurfacePoints with estimated_number drawn from `budgets`
ExtractSurfacePointsWith(budgets) ==
  /\ \E active_buf_indices \in GetActiveIndices(active),
        estimated_number \in budgets, weight_threshold \in {1, 2} :
       ret' \in ExtractSurfacePointsCall(block_values, block_keys,
                                         active_buf_indices, estimated_number,
                                         weight_threshold)
  /\ UNCHANGED <<grid, frustum, local, work, pass, kernel>>

ExtractSurfacePoints == ExtractSurfacePointsWith(0..MaxBudget)

\* ---- PointCloud::FromLegacyPointCloud ----
\* legacy point clouds: lists of points, colours and normals of any lengths
LegacyClouds ==
  [points : SeqsUpTo({<<0, 0, 1>>, <<1, 1, 3>>}, 2),
   colors : SeqsUpTo({<<0, 0, 0>>, <<1, 0, 0>>}, 2),
   normals : SeqsUpTo({<<0, 0, 1>>}, 2)]
Dtypes == {"Float32", "Float64"}

\* open3d::geometry::PointCloud::HasPoints, HasColors, HasNormals
HasPoints(legacy) == Len(legacy.points) > 0
HasColors(legacy) ==
  Len(legacy.points) > 0 /\ Len(legacy.colors) = Len(legacy.points)
HasNormals(legacy) ==
  Len(legacy.points) > 0 /\ Len(legacy.normals) = Len(legacy.points)

\* core::eigen_converter::EigenVector3dVectorToTensor: an N x 3 tensor of dtype
EigenVector3dVectorToTensor(vectors, dtype) ==
  [dtype |-> dtype, shape |-> <<Len(vectors), 3>>, rows |-> vectors]

\* the attribute map m with attribute name set to tensor
SetAttr(m, name, tensor) ==
  [k \in DOMAIN m \cup {name} |-> IF k = name THEN tensor ELSE m[k]]

\* Faulty variant: the points are set without asking HasPoints, and nothing
\* is logged
FromLegacyPointCloudCallAlwaysSets(pcd_legacy, dtype) ==
  LET p0 == << >>
      p1 == SetAttr(p0, "points",
                    EigenVector3dVectorToTensor(pcd_legacy.points, dtype))
      p2 == IF HasColors(pcd_legacy)
            THEN SetAttr(p1, "colors",
                         EigenVector3dVectorToTensor(pcd_legacy.colors, dtype))
            ELSE p1
      p3 == IF HasNormals(pcd_legacy)
            THEN SetAttr(p2, "normals",
                         EigenVector3dVectorToTensor(pcd_legacy.normals, dtype))
            ELSE p2
  IN [op |-> "FromLegacyPointCloud",
      arg |-> [pcd_legacy |-> pcd_legacy, dtype |-> dtype],
      threw |-> FALSE, error |-> "", warned |-> FALSE,
      value |-> [kind |-> "pcd", point_attr_ |-> p3]]

\* FromLegacyPointCloud, lines 274-294: a point cloud without attributes, then
\* points (or a warning), colours and normals as the legacy cloud has them
FromLegacyPointCloudCall(pcd_legacy, dtype) ==
  LET p0 == << >>
      p1 == IF HasPoints(pcd_legacy)
            THEN SetAttr(p0, "points",
                         EigenVector3dVectorToTensor(pcd_legacy.points, dtype))
            ELSE p0
      p2 == IF HasColors(pcd_legacy)
            THEN SetAttr(p1, "colors",
                         EigenVector3dVectorToTensor(pcd_legacy.colors, dtype))
            ELSE p1
      p3 == IF HasNormals(pcd_legacy)
            THEN SetAttr(p2, "normals",
                         EigenVector3dVectorToTensor(pcd_legacy.normals, dtype))
            ELSE p2
  IN [op |-> "FromLegacyPointCloud",
      arg |-> [pcd_legacy |-> pcd_legacy, dtype |-> dtype],
      threw |-> FALSE, error |-> "", warned |-> ~HasPoints(pcd_legacy),
      value |-> [kind |-> "pcd", point_attr_ |-> p3]]

FromLegacyPointCloud ==
  /\ \E pcd_legacy \in LegacyClouds, dtype \in Dtypes :
       ret' = FromLegacyPointCloudCall(pcd_legacy, dtype)
  /\ UNCHANGED <<grid, frustum, local, work, pass, kernel>>

\* ---- specification ----
\* ---- point-wise covariances (EstimatePointWiseCovarianceCUDA) ----
\* point clouds of up to 4 distinct points: three close together and one far
CovPoints == {<<0, 0, 0>>, <<1, 0, 0>>, <<0, 1, 0>>, <<5, 5, 5>>}
CovClouds ==
  UNION {{q \in [1..n -> CovPoints] : \A i, j \in 1..n : q[i] = q[j] => i = j}
           : n \in 0..4}
Radii == {1, 2}
MaxNNs == {2, 4}

Identity == [a \in 1..3 |-> [b \in 1..3 |-> IF a = b THEN One ELSE Zero]]

Dist2(p, q) ==
  (p[1] - q[1]) * (p[1] - q[1]) + (p[2] - q[2]) * (p[2] - q[2])
    + (p[3] - q[3]) * (p[3] - q[3])

\* the k nearest of the candidates S to point i, nearest first
RECURSIVE NearestFirst(_, _, _, _)
NearestFirst(points, i, S, k) ==
  IF S = {} \/ k = 0 THEN <<>>
  ELSE LET j == CHOOSE x \in S :
                  \A y \in S :
                     \/ Dist2(points[i], points[x]) < Dist2(points[i], points[y])
                     \/ /\ Dist2(points[i], points[x]) = Dist2(points[i], points[y])
                        /\ x <= y
       IN <<j>> \o NearestFirst(points, i, S \ {j}, k - 1)

\* tree.HybridSearch(points, radius, max_nn): for every point, the indices of
\* at most max_nn points within the radius (the point itself included)
HybridSearch(points, radius, max_nn) ==
  [i \in DOMAIN points |->
     NearestFirst(points, i,
                  {j \in DOMAIN points :
                     Dist2(points[i], points[j]) <= radius * radius},
                  max_nn)]

\* EstimatePointWiseCovarianceKernel: the covariance matrix of the neighbours
EstimatePointWiseCovarianceKernel(points, indices) ==
  LET k == Len(indices)
      RECURSIVE Sum(_, _)
      Sum(f, i) == IF i = 0 THEN 0 ELSE f[i] + Sum(f, i - 1)
      S1(a) == Sum([x \in 1..k |-> points[indices[x]][a]], k)
      S2(a, b) == Sum([x \in 1..k |->
                         points[indices[x]][a] * points[indices[x]][b]], k)
  IN [a \in 1..3 |-> [b \in 1..3 |-> Frac(k * S2(a, b) - S1(a) * S1(b), k * k)]]

\* Faulty variant: an element with fewer than 3 neighbours is left unwritten
RECURSIVE CovarianceLoopSkips(_, _, _, _)
CovarianceLoopSkips(points, indices, covariances, workload_idx) ==
  IF workload_idx > Len(points) THEN covariances
  ELSE LET neighbour_count == Len(indices[workload_idx])
       IN CovarianceLoopSkips(points, indices,
            IF neighbour_count >= 3
            THEN [covariances EXCEPT ![workload_idx] =
                    EstimatePointWiseCovarianceKernel(points,
                                                      indices[workload_idx])]
            ELSE covariances,
            workload_idx + 1)

\* lines 301-324: the loop over the points
RECURSIVE CovarianceLoop(_, _, _, _)
CovarianceLoop(points, indices, covariances, workload_idx) ==
  IF workload_idx > Len(points) THEN covariances
  ELSE LET neighbour_count == Len(indices[workload_idx])
       IN CovarianceLoop(points, indices,
            IF neighbour_count >= 3
            THEN [covariances EXCEPT ![workload_idx] =
                    EstimatePointWiseCovarianceKernel(points,
                                                      indices[workload_idx])]
            ELSE [covariances EXCEPT ![workload_idx] = Identity],
            workload_idx + 1)

\* EstimatePointWiseCovarianceCUDA: the index is built (LogError throws when
\* it is not), the neighbours are searched, and the loop fills `covariances`,
\* whose elements hold `junk` on entry
EstimatePointWiseCovarianceCall(points, junk, radius, max_nn, check) ==
  LET arg == [points |-> points, radius |-> radius, max_nn |-> max_nn]
      covariances == [i \in DOMAIN points |->
                        [a \in 1..3 |-> [b \in 1..3 |-> FInt(junk)]]]
      indices == HybridSearch(points, radius, max_nn)
  IN IF ~check
     THEN Threw("EstimatePointWiseCovariance", arg,
                "NearestNeighborSearch::FixedRadiusIndex Index is not set.")
     ELSE Returned("EstimatePointWiseCovariance", arg,
                   [kind |-> "covariances",
                    covariances |-> CovarianceLoop(points, indices,
                                                   covariances, 1)])

EstimatePointWiseCovariance ==
  /\ \E check \in BOOLEAN :
     \E points \in IF check THEN CovClouds ELSE {<<>>},
        junk \in IF check THEN Garbage ELSE {0},
        radius \in Radii, max_nn \in MaxNNs :
       ret' = EstimatePointWiseCovarianceCall(points, junk, radius, max_nn,
                                              check)
  /\ UNCHANGED <<grid, frustum, local, work, pass, kernel>>

\* ---- projection of a point cloud to an image (ProjectCUDA) ----
\* points: position and colour (the three channels of a point are equal);
\* the extrinsic is the identity and the intrinsics are `Intrinsic`
ProjPoints ==
  { [pos |-> <<0, 0, 2>>, color |-> 1], [pos |-> <<0, 0, 4>>, color |-> 2],
    [pos |-> <<0, 0, 2>>, color |-> 3], [pos |-> <<0, 0, 6>>, color |-> 4],
    [pos |-> <<1, 0, 2>>, color |-> 5], [pos |-> <<5, 0, 2>>, color |-> 6],
    [pos |-> <<0, 0, 10>>, color |-> 7] }
ProjDepthMax == 8
DepthScales == {1, 2}
\* what the colour image holds before the call
PreviousColor == <<9, 9, 9>>

\* the clouds: the subsets of ProjPoints of at most 3 points, in any one order
ProjClouds ==
  {q \in UNION {[1..n -> ProjPoints] : n \in 0..3} :
     \A i, j \in DOMAIN q : i < j => q[i].color < q[j].color}

\* the pixel a point projects to, or NoPixel when the thread returns at once
\* (outside the image, behind the camera, or beyond depth_max)
NoPixel == <<-1, -1>>
TargetPixel(pt) ==
  LET c == RigidTransform(pt.pos, 0)
  IN IF c[3] <= 0 \/ c[3] > ProjDepthMax THEN NoPixel
     ELSE IF Project(c) \notin Pixels THEN NoPixel ELSE Project(c)

\* d = zc * depth_scale
ScaledDepth(pt, depth_scale) == RigidTransform(pt.pos, 0)[3] * depth_scale

NoKernel == [stage |-> "idle"]

\* ProjectCUDA is called on a zero-initialised depth image; pass 1 is launched
ProjectLaunch ==
  /\ kernel.stage \in {"idle", "done"}
  /\ \E points \in ProjClouds, depth_scale \in DepthScales,
        has_colors \in BOOLEAN :
       kernel' = [stage |-> "depth", points |-> points,
                  depth_scale |-> depth_scale, has_colors |-> has_colors,
                  depth |-> [p \in Pixels |-> 0],
                  image |-> [p \in Pixels |-> PreviousColor],
                  pc |-> [t \in DOMAIN points |-> "start"],
                  d_old |-> [t \in DOMAIN points |-> 0]]
  /\ UNCHANGED <<grid, frustum, local, ret, work, pass>>

\* Faulty variant: the depth is stored without reading the old value back
DepthExchangeOverwrites(k, t) ==
  LET px == TargetPixel(k.points[t])
      d == ScaledDepth(k.points[t], k.depth_scale)
  IN IF px = NoPixel THEN [k EXCEPT !.pc[t] = "done"]
     ELSE [k EXCEPT !.depth[px] = d, !.pc[t] = "done"]

\* pass 1, thread t: the early return, or d_old = atomicExch(depth_ptr, d)
DepthExchange(k, t) ==
  LET px == TargetPixel(k.points[t])
      d == ScaledDepth(k.points[t], k.depth_scale)
  IN IF px = NoPixel THEN [k EXCEPT !.pc[t] = "done"]
     ELSE [k EXCEPT !.depth[px] = d, !.d_old[t] = k.depth[px],
                    !.pc[t] = IF k.depth[px] > 0 THEN "min" ELSE "done"]

\* pass 1, thread t: atomicMinf(depth_ptr, d_old)
DepthMin(k, t) ==
  LET px == TargetPixel(k.points[t])
  IN [k EXCEPT !.depth[px] = Min(k.depth[px], k.d_old[t]), !.pc[t] = "done"]

DepthThread ==
  /\ kernel.stage = "depth"
  /\ \E t \in DOMAIN kernel.points :
       \/ /\ kernel.pc[t] = "start"
          /\ kernel' = DepthExchange(kernel, t)
       \/ /\ kernel.pc[t] = "min"
          /\ kernel' = DepthMin(kernel, t)
  /\ UNCHANGED <<grid, frustum, local, ret, work, pass>>

\* pass 1 has finished: return without colours, or launch pass 2
DepthJoin ==
  /\ kernel.stage = "depth"
  /\ \A t \in DOMAIN kernel.points : kernel.pc[t] = "done"
  /\ IF kernel.has_colors
     THEN /\ kernel' = [kernel EXCEPT !.stage = "color",
                          !.pc = [t \in DOMAIN kernel.points |-> "start"]]
          /\ ret' = ret
     ELSE /\ kernel' = [kernel EXCEPT !.stage = "done"]
          /\ ret' = Returned("ProjectCUDA", "", Void)
  /\ UNCHANGED <<grid, frustum, local, work, pass>>

\* pass 2, thread t: d < dmap + precision_bound, with
\* precision_bound = depth_scale * 1e-4 (less than the distance between two
\* different scaled depths)
ColorTest(k, t) ==
  ScaledDepth(k.points[t], k.depth_scale)
    <= k.depth[TargetPixel(k.points[t])]

\* pass 2, thread t: the early return, the depth test and the three writes
\* color_ptr[0], color_ptr[1], color_ptr[2], each a store of its own
ColorThread ==
  /\ kernel.stage = "color"
  /\ \E t \in DOMAIN kernel.points :
       LET px == TargetPixel(kernel.points[t])
           c == kernel.points[t].color
       IN \/ /\ kernel.pc[t] = "start"
             /\ kernel' =
                  IF px = NoPixel THEN [kernel EXCEPT !.pc[t] = "done"]
                  ELSE IF ~ColorTest(kernel, t)
                  THEN [kernel EXCEPT !.pc[t] = "done"]
                  ELSE [kernel EXCEPT !.image[px][1] = c, !.pc[t] = "c1"]
          \/ /\ kernel.pc[t] = "c1"
             /\ kernel' = [kernel EXCEPT !.image[px][2] = c, !.pc[t] = "c2"]
          \/ /\ kernel.pc[t] = "c2"
             /\ kernel' = [kernel EXCEPT !.image[px][3] = c, !.pc[t] = "done"]
  /\ UNCHANGED <<grid, frustum, local, ret, work, pass>>

\* pass 2 has finished: ProjectCUDA returns
ColorJoin ==
  /\ kernel.stage = "color"
  /\ \A t \in DOMAIN kernel.points : kernel.pc[t] = "done"
  /\ kernel' = [kernel EXCEPT !.stage = "done"]
  /\ ret' = Returned("ProjectCUDA", "", Void)
  /\ UNCHANGED <<grid, frustum, local, work, pass>>

\* ---- the Jacobian of colored ICP (GetJacobianColoredICP) ----
\* One correspondence: source point 0 and a target cloud of one point.
\* Values are exact; the mean of three colour channels is a fraction.
Vectors == {<<0, 0, 0>>, <<1, 2, 3>>, <<2, 0, 1>>}
Normals == {<<0, 0, 1>>, <<1, 0, 0>>}
Colors3 == {<<0, 0, 0>>, <<1, 2, 4>>}
\* (sqrt(lambda), sqrt(1 - lambda)) for lambda = 1 and lambda = 0
SqrtLambdas == {<<1, 0>>, <<0, 1>>}

JacobianInputs ==
  { [workload_idx |-> 0, source_points |-> <<vs>>, source_colors |-> <<cs>>,
     target_points |-> <<vt>>, target_normals |-> <<nt>>,
     target_colors |-> <<ct>>, target_color_gradients |-> <<dit>>,
     correspondence_indices |-> <<c>>,
     sqrt_lambda_geometric |-> l[1], sqrt_lambda_photometric |-> l[2]]
    : vs \in Vectors, cs \in Colors3, vt \in {<<0, 0, 0>>, <<1, 1, 1>>},
      nt \in Normals, ct \in Colors3, dit \in {<<0, 0, 0>>, <<1, 0, 2>>},
      c \in {-1, 0}, l \in SqrtLambdas }

\* the output arguments as the caller passes them in
JacobianOutputs(junk) ==
  [J_G |-> [i \in 1..6 |-> junk], J_I |-> [i \in 1..6 |-> junk],
   r_G |-> junk, r_I |-> FInt(junk)]

\* GetJacobianColoredICP<float>, lines 209-290
GetJacobianColoredICPFloat(in, out) ==
  IF in.correspondence_indices[in.workload_idx + 1] = -1
  THEN [returned |-> FALSE, J_G |-> out.J_G, J_I |-> out.J_I,
        r_G |-> out.r_G, r_I |-> out.r_I]
  ELSE
    LET target == in.correspondence_indices[in.workload_idx + 1] + 1
        source == in.workload_idx + 1
        vs == in.source_points[source]
        vt == in.target_points[target]
        nt == in.target_normals[target]
        d == (vs[1] - vt[1]) * nt[1] + (vs[2] - vt[2]) * nt[2]
               + (vs[3] - vt[3]) * nt[3]
        vs_proj == <<vs[1] - d * nt[1], vs[2] - d * nt[2], vs[3] - d * nt[3]>>
        is == Frac(in.source_colors[source][1] + in.source_colors[source][2]
                     + in.source_colors[source][3], 3)
        it == Frac(in.target_colors[target][1] + in.target_colors[target][2]
                     + in.target_colors[target][3], 3)
        dit == in.target_color_gradients[target]
        is_proj == FAdd(FInt(dit[1] * (vs_proj[1] - vt[1])
                               + dit[2] * (vs_proj[2] - vt[2])
                               + dit[3] * (vs_proj[3] - vt[3])), it)
        s == dit[1] * nt[1] + dit[2] * nt[2] + dit[3] * nt[3]
        ditM == <<s * nt[1] - dit[1], s * nt[2] - dit[2], s * nt[3] - dit[3]>>
        lp == in.sqrt_lambda_photometric
        lg == in.sqrt_lambda_geometric
    IN [returned |-> TRUE,
        J_G |-> << -vs[3] * nt[2] + vs[2] * nt[3],
                   vs[3] * nt[1] - vs[1] * nt[3],
                   -vs[2] * nt[1] + vs[1] * nt[2],
                   nt[1], nt[2], nt[3] >>,
        r_G |-> d,
        J_I |-> << lp * (-vs[3] * ditM[2] + vs[2] * ditM[3]),
                   lp * (vs[3] * ditM[1] - vs[1] * ditM[3]),
                   lp * (-vs[2] * ditM[1] + vs[1] * ditM[2]),
                   lp * ditM[1], lp * ditM[2], lp * ditM[3] >>,
        r_I |-> FMul(FInt(lp), FSub(is, is_proj))]

\* GetJacobianColoredICP<double>, lines 292-374
GetJacobianColoredICPDouble(in, out) ==
  IF in.correspondence_indices[in.workload_idx + 1] = -1
  THEN [returned |-> FALSE, J_G |-> out.J_G, J_I |-> out.J_I,
        r_G |-> out.r_G, r_I |-> out.r_I]
  ELSE
    LET target == in.correspondence_indices[in.workload_idx + 1] + 1
        source == in.workload_idx + 1
        vs == in.source_points[source]
        vt == in.target_points[target]
        nt == in.target_normals[target]
        d == (vs[1] - vt[1]) * nt[1] + (vs[2] - vt[2]) * nt[2]
               + (vs[3] - vt[3]) * nt[3]
        vs_proj == <<vs[1] - d * nt[1], vs[2] - d * nt[2], vs[3] - d * nt[3]>>
        is == Frac(in.source_colors[source][1] + in.source_colors[source][2]
                     + in.source_colors[source][3], 3)
        it == Frac(in.target_colors[target][1] + in.target_colors[target][2]
                     + in.target_colors[target][3], 3)
        dit == in.target_color_gradients[target]
        is_proj == FAdd(FInt(dit[1] * (vs_proj[1] - vt[1])
                               + dit[2] * (vs_proj[2] - vt[2])
                               + dit[3] * (vs_proj[3] - vt[3])), it)
        s == dit[1] * nt[1] + dit[2] * nt[2] + dit[3] * nt[3]
        ditM == <<s * nt[1] - dit[1], s * nt[2] - dit[2], s * nt[3] - dit[3]>>
        lp == in.sqrt_lambda_photometric
        lg == in.sqrt_lambda_geometric
    IN [returned |-> TRUE,
        J_G |-> << lg * (-vs[3] * nt[2] + vs[2] * nt[3]),
                   lg * (vs[3] * nt[1] - vs[1] * nt[3]),
                   lg * (-vs[2] * nt[1] + vs[1] * nt[2]),
                   lg * nt[1], lg * nt[2], lg * nt[3] >>,
        r_G |-> lg * d,
        J_I |-> << lp * (-vs[3] * ditM[2] + vs[2] * ditM[3]),
                   lp * (vs[3] * ditM[1] - vs[1] * ditM[3]),
                   lp * (-vs[2] * ditM[1] + vs[1] * ditM[2]),
                   lp * ditM[1], lp * ditM[2], lp * ditM[3] >>,
        r_I |-> FMul(FInt(lp), FSub(is, is_proj))]

\* the call of one of the two specialisations
GetJacobianColoredICP ==
  /\ \E in \in JacobianInputs, dtype \in {"Float32", "Float64"} :
       ret' = Returned("GetJacobianColoredICP",
                       [dtype |-> dtype, in |-> in],
                       [kind |-> "jacobian",
                        out |-> IF dtype = "Float32"
                                THEN GetJacobianColoredICPFloat(
                                       in, JacobianOutputs(0))
                                ELSE GetJacobianColoredICPDouble(
                                       in, JacobianOutputs(0))])
  /\ UNCHANGED <<grid, frustum, local, work, pass, kernel>>

\* ---- PointCloud::Translate ----
\* clouds of one or two points and translation tensors of shape {3}
TranslateClouds ==
  {<<p>> : p \in {<<0, 0, 0>>, <<1, 2, 3>>}}
    \cup {<<<<0, 0, 0>>, <<1, 2, 3>>>>, <<<<1, 2, 3>>, <<3, 2, 1>>>>}
Translations == {<<0, 0, 0>>, <<1, 0, 2>>, <<2, 2, 2>>, <<-1, 3, 0>>}

\* Tensor::Mean({0}) of the rows
Mean(rows) ==
  LET RECURSIVE Sum(_, _)
      Sum(a, i) == IF i = 0 THEN Zero ELSE FAdd(rows[i][a], Sum(a, i - 1))
  IN [a \in 1..3 |-> FDiv(Sum(a, Len(rows)), FInt(Len(rows)))]

AsFloat(rows) == [i \in DOMAIN rows |-> [a \in 1..3 |-> FInt(rows[i][a])]]

\* Faulty variant: the translation is added as given, whatever `relative`
TranslateCallAlwaysRelative(points, translation, relative, well_formed) ==
  IF ~well_formed
  THEN [threw |-> TRUE, points |-> points, translation |-> translation]
  ELSE [threw |-> FALSE,
        points |-> [i \in DOMAIN points |->
                      [a \in 1..3 |-> FAdd(points[i][a], translation[a])]],
        translation |-> translation]

\* Translate, lines 119-130.  A Tensor is a handle on a storage: the copy
\* `transform = translation` is a second handle on the caller's storage, and
\* `-=` and `+=` write into the storage of their left operand.
TranslateCall(points, translation, relative, well_formed) ==
  IF ~well_formed
  THEN [threw |-> TRUE, points |-> points, translation |-> translation]
  ELSE
    LET transform == "translation"
        heap0 == [translation |-> translation, points |-> points]
        heap1 == IF ~relative
                 THEN [heap0 EXCEPT ![transform] =
                         [a \in 1..3 |->
                            FSub(heap0[transform][a], Mean(heap0.points)[a])]]
                 ELSE heap0
        heap2 == [heap1 EXCEPT !.points =
                    [i \in DOMAIN heap1.points |->
                       [a \in 1..3 |->
                          FAdd(heap1.points[i][a], heap1[transform][a])]]]
    IN [threw |-> FALSE, points |-> heap2.points,
        translation |-> heap2.translation]

\* Translate on a cloud; translation.AssertShape / AssertDevice throw for a
\* tensor that is not well formed
Translate ==
  /\ \E points \in TranslateClouds, translation \in Translations,
        relative \in BOOLEAN, well_formed \in BOOLEAN :
       LET o == TranslateCall(AsFloat(points),
                              [a \in 1..3 |-> FInt(translation[a])],
                              relative, well_formed)
           arg == [points |-> AsFloat(points),
                   translation |-> [a \in 1..3 |-> FInt(translation[a])],
                   relative |-> relative]
       IN ret' = IF o.threw THEN Threw("Translate", arg, "translation")
                 ELSE Returned("Translate", arg,
                               [kind |-> "translated", points |-> o.points,
                                translation |-> o.translation])
  /\ UNCHANGED <<grid, frustum, local, work, pass, kernel>>

\* ---- PointCloud::VoxelDownSample ----
\* clouds of one to three points with one colour per point, the colour of
\* row i being i; voxel sizes 1/2, 1 and 2, and the non-positive 0 and -1
DownSamplePoints == {<<0, 0, 0>>, <<-1, 0, 0>>, <<-2, 0, 1>>}
DownSampleClouds ==
  {[points |-> q, colors |-> [i \in DOMAIN q |-> i]]
     : q \in SeqsUpTo(DownSamplePoints, 3) \ {<<>>}}
VoxelSizes == {Frac(1, 2), FInt(1), FInt(2), FInt(0), FInt(-1)}

\* Faulty variant: the quotient is cut toward zero instead of floored
FloorToInt64Truncates(points, voxel_size) ==
  [i \in DOMAIN points |->
     [a \in 1..3 |->
        LET q == FDiv(FInt(points[i][a]), voxel_size)
        IN IF q.n < 0 THEN -((-q.n) \div q.d) ELSE q.n \div q.d]]

\* (GetPoints() / voxel_size).Floor().To(Int64), lines 165-166
FloorToInt64(points, voxel_size) ==
  [i \in DOMAIN points |->
     [a \in 1..3 |-> Floor(FDiv(FInt(points[i][a]), voxel_size))]]

\* Tensor::IndexGet({masks}): the rows whose mask is true, in order
RECURSIVE IndexGet(_, _)
IndexGet(t, masks) ==
  IF t = <<>> THEN <<>>
  ELSE (IF masks[1] THEN <<t[1]>> ELSE <<>>) \o IndexGet(Tail(t), Tail(masks))

\* VoxelDownSample, lines 159-186: the outcomes of one call
VoxelDownSampleCall(pcd, voxel_size) ==
  IF FracLeq(voxel_size, Zero)
  THEN {Threw("VoxelDownSample", [pcd |-> pcd, voxel_size |-> voxel_size],
              "voxel_size must be positive.")}
  ELSE
    LET points_voxeli == FloorToInt64(pcd.points, voxel_size)
        length == Len(points_voxeli)
        hashmap == [s \in 0..(length - 1) |-> NoKey]
    IN { LET masks == [i \in DOMAIN points_voxeli |-> a.won[i] # -1]
             chosen == IndexGet(points_voxeli, masks)
         IN Returned("VoxelDownSample",
                     [pcd |-> pcd, voxel_size |-> voxel_size],
                     [kind |-> "pcd_down",
                      points |-> [j \in DOMAIN chosen |->
                                    [b \in 1..3 |->
                                       FMul(FInt(chosen[j][b]), voxel_size)]],
                      colors |-> IndexGet(pcd.colors, masks)])
         : a \in Activate(hashmap, {}, points_voxeli) }

VoxelDownSample ==
  /\ \E pcd \in DownSampleClouds, voxel_size \in VoxelSizes :
       ret' \in VoxelDownSampleCall(pcd, voxel_size)
  /\ UNCHANGED <<grid, frustum, local, work, pass, kernel>>

\* no pass of the integration kernel has been launched
NoPass == [running |-> FALSE, before |-> <<>>,
           share |-> [k \in Workers |-> <<>>], pos |-> [k \in Workers |-> 0]]

Init ==
  /\ capacity \in 1..MaxCapacity
  /\ block_keys = [s \in Slots |-> NoKey]
  /\ active = {}
  /\ block_values = [s \in Slots |-> [v \in Voxels |-> EmptyCell]]
  /\ frustum = NullFrustum
  /\ local = NoLocal
  /\ ret = Returned("VoxelBlockGrid", "", None)
  /\ work = 0
  /\ pass = NoPass
  /\ kernel = NoKernel

Next ==
  \/ Integrate
  \/ GetAttribute

Spec == Init /\ [][Next]_vars

\* the grid under integration and ray casting
NextRayCast ==
  \/ IntegrateTouched
  \/ RayCast

SpecRayCast == Init /\ [][NextRayCast]_vars

\* the touch passes on one grid
NextTouch ==
  \/ GetUniqueBlockCoordinatesDepth
  \/ GetUniqueBlockCoordinatesPointCloud

SpecTouch == Init /\ [][NextTouch]_vars

\* the grid under integration and voxel enumeration
NextVoxels ==
  \/ IntegrateTouched
  \/ GetVoxelIndices
  \/ GetVoxelCoordinates

SpecVoxels == Init /\ [][NextVoxels]_vars

\* the grid under integration and surface extraction
NextExtract ==
  \/ IntegrateTouched
  \/ ExtractSurfacePoints

SpecExtract == Init /\ [][NextExtract]_vars

\* every operation on one grid, each with one or two inputs
NextGrid ==
  \/ IntegrateWith({<<<<0, 0, 1>>, <<0, 0, 0>>>>})
  \/ DepthTouchWith({m \in DepthImages : m.cols = 4 /\ m.depth[<<0, 0>>] = 6})
  \/ PointCloudTouchWith({q \in PointClouds : Len(q) = 1})
  \/ RayCastWith({<<<<0, 0, 0>>>>}, {w \in Views : w.tz = 1})
  \/ ExtractSurfacePointsWith({1})
  \/ GetAttribute
  \/ GetVoxelIndices
  \/ GetVoxelCoordinates

SpecGrid == Init /\ [][NextGrid]_vars

\* conversions of legacy point clouds
NextLegacy == FromLegacyPointCloud

SpecLegacy == Init /\ [][NextLegacy]_vars

\* integration passes run by parallel workers
NextWorkers ==
  \/ IntegrateLaunch
  \/ Worker
  \/ IntegrateJoin
SpecWorkers == Init /\ [][NextWorkers]_vars

\* ray casting over grids in which one or both blocks of a ray are allocated
NextMarch ==
  \/ IntegrateFrames({q \in CoordSeqs : Len(q) = 1}
                       \cup {<<<<0, 0, 0>>, <<0, 0, 1>>>>}, MarchFrames)
  \/ RayCastWith({<<<<0, 0, 0>>, <<0, 0, 1>>>>}, {w \in Views : w.tz = 1})
SpecMarch == Init /\ [][NextMarch]_vars

\* the projection of a point cloud, thread by thread
NextProject ==
  \/ ProjectLaunch
  \/ DepthThread
  \/ DepthJoin
  \/ ColorThread
  \/ ColorJoin
SpecProject == Init /\ [][NextProject]_vars

\* the Jacobian of colored ICP
NextJacobian == GetJacobianColoredICP
SpecJacobian == Init /\ [][NextJacobian]_vars

\* voxel down-sampling of a point cloud
NextDownSample == VoxelDownSample
SpecDownSample == Init /\ [][NextDownSample]_vars

\* translations of a point cloud
NextTranslate == Translate
SpecTranslate == Init /\ [][NextTranslate]_vars

\* the point-wise covariance estimate
NextCovariance == EstimatePointWiseCovariance
SpecCovariance == Init /\ [][NextCovariance]_vars

\* ---- claims ----
IntegrateReturned == local.block_coords # <<>>
Lookups == DOMAIN local.block_coords

\* C1: after Integrate has run Activate and then Find on block_coords, the
\* mask is true for every coordinate that is a key of the block index, and a
\* coordinate is left out of the index (mask false) only when every buffer
\* index is taken; this holds after any number of earlier Integrate calls.
C1_FindAfterActivate ==
  \A i \in Lookups :
     /\ local.masks[i] = Present(block_keys, active, local.block_coords[i])
     /\ ~local.masks[i] => active = Slots

\* C1 witness: a second Integrate whose coordinates were all found
C1_Witness ==
  /\ IntegrateReturned
  /\ work > 1 + Len(local.block_coords)
  /\ ~local.was_empty
  /\ \A i \in Lookups : local.masks[i]

\* C2: every key of the block index is stored at exactly one active buffer
\* index; every lookup of a present coordinate resolves to that index, so
\* duplicates within one call get the same index and different coordinates
\* get different indices.
C2_OneSlotPerKey ==
  /\ \A s, t \in active : block_keys[s] = block_keys[t] => s = t
  /\ \A s \in active : block_keys[s] \in Coords
  /\ \A i \in Lookups :
        Present(block_keys, active, local.block_coords[i])
          => /\ local.buf_indices[i] \in active
             /\ block_keys[local.buf_indices[i]] = local.block_coords[i]
  /\ \A i, j \in Lookups :
        (local.masks[i] /\ local.masks[j])
          => ((local.block_coords[i] = local.block_coords[j])
                <=> (local.buf_indices[i] = local.buf_indices[j]))

\* C2 witness: one call activated a duplicated coordinate and another one
C2_Witness ==
  /\ IntegrateReturned
  /\ local.was_empty
  /\ Cardinality(active) > 1
  /\ \E i, j \in Lookups : i # j /\ local.block_coords[i] = local.block_coords[j]

\* C3: the index is append-only: an active buffer index stays active and
\* keeps its key in every step.
C3_AppendOnly ==
  [][\A s \in active : s \in active' /\ block_keys'[s] = block_keys[s]]_vars

\* C3 witness: a key activated by an earlier call is still in place after a
\* later call activated another one
C3_Witness ==
  /\ IntegrateReturned
  /\ ~local.was_empty
  /\ \E s \in active : block_keys[s] \notin Range(local.block_coords)
  /\ \E i \in Lookups : local.masks[i]

\* C4 (as claimed): when a requested coordinate could not be activated, no
\* exception is thrown and the caller of Integrate receives the masks.
C4_OverflowSignalled ==
  (ret.op = "Integrate" /\ ret.arg = {} /\ \E i \in Lookups : ~local.masks[i])
     => (~ret.threw /\ ret.value = [kind |-> "masks", masks |-> local.masks])

\* C5: an Integrate call with a malformed input throws, naming a malformed
\* input, and leaves the block index and every voxel as they were.
C5_MalformedFailsFirst ==
  [][(ret'.op = "Integrate" /\ ret'.arg # {})
        => (ret'.threw /\ ret'.error \in ret'.arg /\ UNCHANGED grid)]_vars

\* C5 witness: a malformed call on a grid that holds integrated blocks
C5_Witness ==
  /\ ret.op = "Integrate" /\ ret.threw
  /\ \E s \in active : \E v \in Voxels : block_values[s][v].weight > 0

\* C6 (as claimed): GetAttribute of a name that was never configured warns
\* and returns an empty tensor without failing.
C6_MissingAttributeRecoverable ==
  (ret.op = "GetAttribute" /\ ret.arg \notin Range(AttrNames))
     => (ret.warned /\ ~ret.threw /\ ret.value = [kind |-> "empty"])

\* C8: over every step, the weight of every voxel of every block that is
\* allocated before and after the step does not decrease.
C8_WeightMonotone ==
  [][\A k \in Coords :
       \A s \in SlotsOf(block_keys, active, k),
          t \in SlotsOf(block_keys', active', k), v \in Voxels :
            block_values'[t][v].weight >= block_values[s][v].weight]_vars

\* C8 witness: a voxel integrated by two calls
C8_Witness ==
  /\ IntegrateReturned
  /\ ~local.was_empty
  /\ \E s \in active, v \in Voxels : block_values[s][v].weight >= 2

\* C9: every voxel of every block has weight >= 0, and a voxel of weight 0
\* holds the default TSDF of a block that was never written.
C9_ZeroWeightDefault ==
  \A s \in Slots, v \in Voxels :
     /\ block_values[s][v].weight >= 0
     /\ block_values[s][v].weight = 0 => block_values[s][v].tsdf = EmptyCell.tsdf

\* C9 witness: an allocated block with a voxel the pass skipped and a voxel
\* it wrote a non-default TSDF to
C9_Witness ==
  \E s \in active, v, u \in Voxels :
     /\ block_values[s][v].weight = 0
     /\ block_values[s][u].weight > 0
     /\ block_values[s][u].tsdf # EmptyCell.tsdf

\* the step integrates, for the second time, the frame and block_coords that
\* the only call so far integrated into the empty grid
SameFrameAgain ==
  /\ IntegrateReturned
  /\ local.was_empty
  /\ work = 1 + Len(local.block_coords)
  /\ work' > work
  /\ local'.block_coords = local.block_coords
  /\ local'.frame = local.frame

Rendered == ret.op = "RayCast" /\ ~ret.threw
NoCrossing(p) ==
  ~March(block_values, block_keys, active, p, ret.arg.view,
         ret.value.range.min, ret.value.range.max,
         [has |-> FALSE, t |-> 0, tsdf |-> Zero]).hit

\* C7 (as claimed): a pixel without a crossing holds zero in depth, vertex,
\* color and normal and has all 8 mask entries false.
C7_NoCrossingZero ==
  Rendered =>
    \A p \in Pixels :
       NoCrossing(p) =>
         /\ ret.value.maps[p].depth = Zero
         /\ ret.value.maps[p].color = Zero
         /\ \A a \in 1..3 : /\ ret.value.maps[p].vertex[a] = Zero
                            /\ ret.value.maps[p].normal[a] = Zero
         /\ \A k \in Corners : ~ret.value.maps[p].mask[k]

\* ---- claims on the touch pass ----
TouchReturned == ret.op = "GetUniqueBlockCoordinates" /\ ~ret.threw
\* the step is a touch call that returned
TouchStep == ret'.op = "GetUniqueBlockCoordinates" /\ ~ret'.threw

\* every reordering of the list q
Reorderings(q) == {[i \in DOMAIN q |-> q[f[i]]] : f \in Orderings(DOMAIN q)}

\* the key sets the scratch index may end with when the call of the step is
\* made with its pixels or points in any order
KeySetsAnyOrder(fr, arg) ==
  IF arg.overload = "depth"
  THEN TouchKeySets(ScratchReady(fr, DepthCapacity(arg.image)),
                    DepthTouched(arg.image, arg.view, DepthTrunc))
  ELSE UNION { TouchKeySets(ScratchReady(fr, PointCloudCapacity(q)),
                            PointCloudTouched(q, PointCloudTrunc))
               : q \in Reorderings(arg.positions) }

\* C11 (as claimed): the block coordinates a touch call returns are the same
\* set for every order of its input pixels or points, and the returned list
\* holds no coordinate twice.
C11_TouchOrderIndependent ==
  [][TouchStep =>
       /\ \A i, j \in DOMAIN ret'.value.coords :
             ret'.value.coords[i] = ret'.value.coords[j] => i = j
       /\ \A keys \in KeySetsAnyOrder(frustum, ret'.arg) :
             keys = Range(ret'.value.coords)]_vars

\* the block coordinates the input of the last touch call touches, and the
\* capacity a scratch index made for that input is given
TouchedByLast ==
  IF ret.arg.overload = "depth"
  THEN DepthTouched(ret.arg.image, ret.arg.view, DepthTrunc)
  ELSE PointCloudTouched(ret.arg.positions, PointCloudTrunc)
SizedForLast ==
  IF ret.arg.overload = "depth" THEN DepthCapacity(ret.arg.image)
  ELSE PointCloudCapacity(ret.arg.positions)

C17_ScratchSizedFromInput ==
  TouchReturned => frustum.capacity >= SizedForLast

\* ---- claims on voxel enumeration ----
\* column i of a tensor given as a tuple of rows
Column(t, i) == [r \in DOMAIN t |-> t[r][i]]

\* C14: GetVoxelIndices lists every (buffer index, x, y, z) with an active
\* buffer index and x, y, z in [0, block_resolution) exactly once;
\* GetVoxelCoordinates maps column (s, x, y, z) to key(s) * block_resolution
\* + (x, y, z), and no two columns get the same global coordinate.
C14_VoxelEnumeration ==
  /\ ret.op = "GetVoxelIndices" =>
       LET t == ret.value.indices
       IN /\ {Column(t, i) : i \in DOMAIN t[1]}
               = {<<s, v[1], v[2], v[3]>> : s \in active, v \in Voxels}
          /\ \A i, j \in DOMAIN t[1] : Column(t, i) = Column(t, j) => i = j
  /\ ret.op = "GetVoxelCoordinates" =>
       LET t == ret.arg
           g == ret.value.coords
       IN /\ DOMAIN g[1] = DOMAIN t[1]
          /\ \A i \in DOMAIN t[1] :
                Column(g, i) = [a \in 1..3 |->
                                  block_keys[t[1][i]][a] * block_resolution_
                                    + t[a + 1][i]]
          /\ \A i, j \in DOMAIN t[1] : Column(g, i) = Column(g, j) => i = j

\* C14 witness: the voxels of two active blocks were enumerated and mapped
C14_Witness ==
  /\ ret.op = "GetVoxelCoordinates"
  /\ Cardinality(active) = 2
  /\ Cardinality(DOMAIN ret.value.coords[1])
       = 2 * block_resolution_ * block_resolution_ * block_resolution_

\* ---- claims on surface extraction ----
\* the crossings of the grid as it is, at the threshold of the last call
CrossingsNow ==
  LET l == Listed(active)
  IN SurfaceCrossings(block_values, block_keys, l,
                      BufferRadiusNeighbors(block_keys, active, l),
                      ret.arg.weight_threshold)

\* C13: ExtractSurfacePoints does not fail and returns at most
\* estimated_number points and as many colours as points; with more
\* crossings than estimated_number it returns exactly estimated_number of them.
C13_ExtractWithinBudget ==
  ret.op = "ExtractSurfacePoints" =>
    /\ ~ret.threw
    /\ Len(ret.value.points) <= ret.arg.estimated_number
    /\ Len(ret.value.colors) = Len(ret.value.points)
    /\ Len(ret.value.points)
         = Min(Cardinality(CrossingsNow), ret.arg.estimated_number)
    /\ \A i \in DOMAIN ret.value.points :
          \E c \in CrossingsNow : /\ c.position = ret.value.points[i]
                                  /\ c.color = ret.value.colors[i]

\* C13 witness: the grid has more crossings than the budget, which is not 0
C13_Witness ==
  /\ ret.op = "ExtractSurfacePoints"
  /\ ret.arg.estimated_number > 0
  /\ Cardinality(CrossingsNow) > ret.arg.estimated_number
  /\ Len(ret.value.points) = ret.arg.estimated_number

\* ---- claims on the operations together ----
\* C12: a step of any operation other than Integrate leaves the keys of the
\* block index and the buffer index of every key as they were.
C12_OnlyIntegrateAllocates ==
  [][ret'.op # "Integrate" => UNCHANGED <<block_keys, active>>]_vars

\* C12 witness: an operation other than Integrate returned on a grid with two
\* allocated blocks while the scratch index holds a touched coordinate that
\* is not allocated
C12_Witness ==
  /\ ret.op \in {"GetUniqueBlockCoordinates", "RayCast", "ExtractSurfacePoints",
                 "GetAttribute", "GetVoxelIndices", "GetVoxelCoordinates"}
  /\ Cardinality(active) = 2
  /\ \E k \in frustum.keys : ~Present(block_keys, active, k)

\* ---- claims on PointCloud ----
\* C15: FromLegacyPointCloud of a legacy cloud without points logs a warning,
\* returns, and the point cloud it returns has no points (and no other
\* attribute) set.
C15_EmptyLegacyWarns ==
  (ret.op = "FromLegacyPointCloud" /\ ret.arg.pcd_legacy.points = <<>>)
     => /\ ret.warned
        /\ ~ret.threw
        /\ "points" \notin DOMAIN ret.value.point_attr_
        /\ DOMAIN ret.value.point_attr_ = {}

\* C15 witness: a legacy cloud with colours and normals but no points
C15_Witness ==
  /\ ret.op = "FromLegacyPointCloud"
  /\ ret.arg.pcd_legacy.points = <<>>
  /\ ret.arg.pcd_legacy.colors # <<>>
  /\ ret.arg.pcd_legacy.normals # <<>>
  /\ ret.warned

\* ---- claims on the integration pass ----
\* the step is an Integrate call that returned
IntegrateStep == ret'.op = "Integrate" /\ ~ret'.threw
truncation == (voxel_size_ * block_resolution_) \div 2

\* the voxel in camera space, and the reasons for which the pass skips it
VoxelCamera(key, v, frame) == RigidTransform(VoxelWorld(key, v), frame.tz)
BehindCamera(key, v, frame) == VoxelCamera(key, v, frame)[3] <= 0
OutsideImage(key, v, frame) ==
  /\ ~BehindCamera(key, v, frame)
  /\ Project(VoxelCamera(key, v, frame)) \notin Pixels
BeyondDepthMax(key, v, frame) ==
  VoxelCamera(key, v, frame)[3] > frame.depth_max
Sdf(key, v, frame) ==
  frame.depth[Project(VoxelCamera(key, v, frame))] \div frame.depth_scale
    - VoxelCamera(key, v, frame)[3]
Occluded(key, v, frame) ==
  /\ ~BehindCamera(key, v, frame)
  /\ ~OutsideImage(key, v, frame)
  /\ Sdf(key, v, frame) < -truncation
Skipped(key, v, frame) ==
  \/ BehindCamera(key, v, frame)
  \/ OutsideImage(key, v, frame)
  \/ BeyondDepthMax(key, v, frame)
  \/ Occluded(key, v, frame)

\* C18: an Integrate call leaves the TSDF, weight and colour of a voxel of an
\* allocated block as they were when the voxel is behind the camera, projects
\* outside the image, lies beyond depth_max or has sdf < -truncation.
C18_SkippedVoxelsKept ==
  [][IntegrateStep =>
       \A s \in active', v \in Voxels :
          Skipped(block_keys'[s], v, local'.frame)
            => block_values'[s][v] = block_values[s][v]]_vars

\* C18 witness: the last call listed a block with a voxel behind the camera
\* that an earlier call had integrated, and blocks with a voxel projecting
\* outside the image and a voxel beyond depth_max
C18_Witness ==
  /\ IntegrateReturned
  /\ \E s \in Range(local.buf_indices), v \in Voxels :
        /\ BehindCamera(block_keys[s], v, local.frame)
        /\ block_values[s][v].weight > 0
        /\ block_values[s][v].tsdf # EmptyCell.tsdf
  /\ \E s \in Range(local.buf_indices), v \in Voxels :
        OutsideImage(block_keys[s], v, local.frame)
  /\ \E s \in Range(local.buf_indices), v \in Voxels :
        /\ ~BehindCamera(block_keys[s], v, local.frame)
        /\ BeyondDepthMax(block_keys[s], v, local.frame)

\* n updates of one voxel with the same clamped sdf x
RECURSIVE Averaged(_, _, _)
Averaged(cell, x, n) ==
  IF n = 0 THEN cell
  ELSE Averaged([cell EXCEPT !.tsdf = RunningAverage(cell.tsdf, cell.weight, x),
                             !.weight = cell.weight + 1], x, n - 1)

\* C19: every update of a voxel replaces its TSDF by
\* (tsdf * w + clamp(sdf, -truncation, truncation)) / (w + 1) and its weight
\* by w + 1, once per entry of buf_indices that names its block, with
\* truncation = voxel_size * block_resolution / 2; and in every state a voxel
\* with weight > 0 has |TSDF| <= truncation.
C19_ClampedRunningAverage ==
  [][/\ IntegrateStep =>
          \A s \in active', v \in Voxels :
             ~Skipped(block_keys'[s], v, local'.frame) =>
                LET n == Cardinality({i \in DOMAIN local'.buf_indices :
                                        local'.buf_indices[i] = s})
                    x == Clamp(Sdf(block_keys'[s], v, local'.frame),
                               -truncation, truncation)
                    e == Averaged(block_values[s][v], x, n)
                IN /\ block_values'[s][v].tsdf = e.tsdf
                   /\ block_values'[s][v].weight = e.weight
     /\ \A s \in Slots, v \in Voxels :
           block_values'[s][v].weight > 0
             => /\ FracLeq(FInt(-truncation), block_values'[s][v].tsdf)
                /\ FracLeq(block_values'[s][v].tsdf, FInt(truncation))]_vars

\* C19 witness: a voxel integrated three times whose sdf was clamped in one
\* update and not in another, so that its TSDF is a proper fraction
C19_Witness ==
  /\ IntegrateReturned
  /\ \E s \in active, v \in Voxels :
        /\ block_values[s][v].weight = 3
        /\ block_values[s][v].tsdf.d > 1
        /\ Sdf(block_keys[s], v, local.frame) > truncation

\* n updates of one voxel, one after the other
RECURSIVE Updated(_, _, _, _, _)
Updated(cell, key, v, frame, n) ==
  IF n = 0 THEN cell
  ELSE Updated(UpdateVoxel(cell, key, v, frame, truncation), key, v, frame,
               n - 1)

\* the workloads on voxel v of slot s that have run in the current pass
Done(s, v) ==
  {kx \in Workers \X (1..(Len(local.buf_indices) * VoxelsPerBlock)) :
     /\ kx[2] <= pass.pos[kx[1]]
     /\ pass.share[kx[1]][kx[2]][2] = v
     /\ local.buf_indices[pass.share[kx[1]][kx[2]][1]] = s}

MarchSteps ==
  LET range == EstimateRange(ret.arg.block_coords, ret.arg.view)
  IN {t \in range.min..(range.max - 1) : (t - range.min) % voxel_size_ = 0}

\* the sample of the ray of pixel p at depth t
Sample(p, t) ==
  LET q == RayPoint(p, FInt(t), ret.arg.view)
  IN ResolveVoxel(block_values, block_keys, active,
                  [a \in 1..3 |-> Floor(q[a])], ret.arg.view.weight_threshold)

\* the steps of the ray that resolve to a valid voxel, and the one before t
Resolved(p) == {t \in MarchSteps : Sample(p, t).valid}
Before(p, t) == {u \in Resolved(p) : u < t /\ \A x \in Resolved(p) : x < t => x <= u}

\* the TSDF goes from positive to negative between the resolved step before
\* t and the resolved step t
CrossingAt(p, t) ==
  /\ t \in Resolved(p)
  /\ Sample(p, t).cell.tsdf.n < 0
  /\ \E u \in Before(p, t) : Sample(p, u).cell.tsdf.n > 0

\* C21: steps in unallocated blocks are passed over: a pixel whose ray has no
\* step at which the TSDF goes from positive to negative between two
\* consecutive resolved samples reports no surface (all 8 mask entries false,
\* depth as allocated); otherwise the reported depth lies between the two
\* resolved samples of the first such step.
C21_FirstCrossingOfResolvedSamples ==
  Rendered =>
    \A p \in Pixels :
       LET hits == {t \in MarchSteps : CrossingAt(p, t)}
       IN IF hits = {}
          THEN /\ \A k \in Corners : ~ret.value.maps[p].mask[k]
               /\ ret.value.maps[p].depth \in {FInt(j) : j \in Garbage}
          ELSE LET t == CHOOSE x \in hits : \A y \in hits : x <= y
                   u == CHOOSE x \in Before(p, t) : TRUE
               IN /\ FracLeq(FInt(u * ret.arg.view.depth_scale),
                             ret.value.maps[p].depth)
                  /\ FracLeq(ret.value.maps[p].depth,
                             FInt(t * ret.arg.view.depth_scale))
                  /\ \E k \in Corners : ret.value.maps[p].mask[k]

\* C21 witness: a rendering whose ray first crosses unallocated steps and then
\* meets a negative sample, so that it reports no surface
C21_Witness ==
  /\ Rendered
  /\ \E p \in Pixels :
        /\ \E t \in MarchSteps : ~Sample(p, t).allocated
        /\ \E t \in Resolved(p) :
              /\ Sample(p, t).cell.tsdf.n < 0
              /\ \A u \in MarchSteps : u < t => ~Sample(p, u).allocated
        /\ \A k \in Corners : ~ret.value.maps[p].mask[k]

\* a rendering with a surface: a positive and then a negative resolved sample
C21_WitnessHit ==
  /\ Rendered
  /\ \E p \in Pixels, t \in MarchSteps : CrossingAt(p, t)

\* ---- claims on the point-wise covariances ----
\* the neighbours found for point i of the last covariance estimate
NeighboursOf(i) ==
  HybridSearch(ret.arg.points, ret.arg.radius, ret.arg.max_nn)[i]
CovarianceReturned == ret.op = "EstimatePointWiseCovariance" /\ ~ret.threw

\* C22: a point with fewer than 3 neighbours gets the 3x3 identity as its
\* covariance; the call returns, and every point with 3 or more neighbours
\* holds the covariance of its own neighbours, symmetric and with the
\* variances of the neighbour coordinates on its diagonal.
C22_FewNeighboursIdentity ==
  CovarianceReturned =>
    \A i \in DOMAIN ret.arg.points :
       LET c == ret.value.covariances[i]
           nb == NeighboursOf(i)
           k == Len(nb)
       IN IF k < 3 THEN c = Identity
          ELSE /\ \A a, b \in 1..3 : c[a][b] = c[b][a]
               /\ \A a \in 1..3 :
                     (\A x \in 1..k :
                         ret.arg.points[nb[x]][a] = ret.arg.points[nb[1]][a])
                       <=> c[a][a] = Zero

\* C22 witness: one estimate in which a point with fewer than 3 neighbours
\* got the identity and another point got a covariance that is not the
\* identity
C22_Witness ==
  /\ CovarianceReturned
  /\ \E i, j \in DOMAIN ret.arg.points :
        /\ Len(NeighboursOf(i)) < 3
        /\ Len(NeighboursOf(j)) >= 3
        /\ i < j
        /\ ret.value.covariances[i] = Identity
        /\ ret.value.covariances[j] # Identity

\* ---- claims on the slots Integrate writes ----
\* the entries of block_coords that Find resolved to slot s in the step
ResolvedTo(s) ==
  {i \in DOMAIN local'.buf_indices :
     local'.masks[i] /\ local'.buf_indices[i] = s}

\* C23 (as claimed): an Integrate call updates the voxels of a slot once per
\* requested coordinate that Find resolved to that slot (mask true), and not
\* at all on behalf of a coordinate whose mask is false.
C23_OnlyResolvedSlotsWritten ==
  [][IntegrateStep =>
       \A s \in Slots, v \in Voxels :
          block_values'[s][v] =
            Updated(block_values[s][v], block_keys'[s], v, local'.frame,
                    Cardinality(ResolvedTo(s)))]_vars

\* ---- claims on ProjectCUDA ----
\* the threads whose point projects to pixel p within bounds
ProjectingTo(p) ==
  {t \in DOMAIN kernel.points : TargetPixel(kernel.points[t]) = p}
DepthOf(t) == ScaledDepth(kernel.points[t], kernel.depth_scale)
DepthPassDone == kernel.stage \in {"color", "done"}

\* C24: when every thread of the depth pass has finished, each pixel holds
\* the least zc * depth_scale of the points that project to it, and 0 when
\* no point does.
C24_DepthIsMinimum ==
  DepthPassDone =>
    \A p \in Pixels :
       IF ProjectingTo(p) = {} THEN kernel.depth[p] = 0
       ELSE /\ \E t \in ProjectingTo(p) : kernel.depth[p] = DepthOf(t)
            /\ \A t \in ProjectingTo(p) : kernel.depth[p] <= DepthOf(t)

\* C24 witness: three points projected to one pixel, the nearest of them
\* neither the first nor the last of the cloud, and one pixel got no point
C24_Witness ==
  /\ DepthPassDone
  /\ \E p \in Pixels :
        /\ Cardinality(ProjectingTo(p)) = 3
        /\ kernel.depth[p] = DepthOf(2)
        /\ DepthOf(1) > DepthOf(2) /\ DepthOf(3) > DepthOf(2)
  /\ \E p \in Pixels : ProjectingTo(p) = {} /\ kernel.depth[p] = 0

ColorPassDone == kernel.stage = "done" /\ kernel.has_colors
\* the threads whose point passes the depth test of pixel p at the end
NearEnough(p) == {t \in ProjectingTo(p) : DepthOf(t) <= kernel.depth[p]}

\* C25 (as claimed): when every thread of the colour pass has finished, each
\* pixel that received depth holds the colour of one point whose scaled depth
\* is below the pixel's depth plus the precision bound, and each pixel no
\* point projects to holds its previous colour.
C25_ColorOfOneNearPoint ==
  ColorPassDone =>
    \A p \in Pixels :
       IF ProjectingTo(p) = {} THEN kernel.image[p] = PreviousColor
       ELSE \E t \in NearEnough(p) :
               \A ch \in 1..3 : kernel.image[p][ch] = kernel.points[t].color

\* every channel of the colour comes from a point that passes the depth test
C25_ChannelsOfNearPoints ==
  ColorPassDone =>
    \A p \in Pixels :
       IF ProjectingTo(p) = {} THEN kernel.image[p] = PreviousColor
       ELSE \A ch \in 1..3 :
               \E t \in NearEnough(p) :
                  kernel.image[p][ch] = kernel.points[t].color

\* ---- claims on GetJacobianColoredICP ----
\* C26 (as claimed): for the inputs of the last call both specialisations
\* give the same outputs; with a correspondence, J_G and r_G carry the factor
\* sqrt_lambda_geometric; without one (index -1) the call returns false and
\* leaves every output as it was.
C26_FloatEqualsDouble ==
  ret.op = "GetJacobianColoredICP" =>
    LET in == ret.arg.in
        out == ret.value.out
        nt == in.target_normals[1]
    IN /\ GetJacobianColoredICPFloat(in, JacobianOutputs(0))
            = GetJacobianColoredICPDouble(in, JacobianOutputs(0))
       /\ IF in.correspondence_indices[1] = -1
          THEN /\ ~out.returned
               /\ out.J_G = JacobianOutputs(0).J_G
               /\ out.J_I = JacobianOutputs(0).J_I
               /\ out.r_G = JacobianOutputs(0).r_G
               /\ out.r_I = JacobianOutputs(0).r_I
          ELSE /\ out.returned
               /\ \A i \in 1..3 :
                     out.J_G[i + 3] = in.sqrt_lambda_geometric * nt[i]

\* ---- claims on PointCloud::Translate ----
TranslatedTo == ret.op = "Translate" /\ ~ret.threw /\ ~ret.arg.relative

\* C27 (as claimed): after Translate with relative = false the centre of the
\* points is the translation that was passed, and the caller's translation
\* tensor holds what it held before the call.
C27_CenterMovedArgumentKept ==
  TranslatedTo =>
    /\ Mean(ret.value.points) = ret.arg.translation
    /\ ret.value.translation = ret.arg.translation

\* the centre does move to the translation that was passed
C27_CenterMoved ==
  TranslatedTo => Mean(ret.value.points) = ret.arg.translation

\* ---- claims on BufferRadiusNeighbors ----
Offsets == {-1, 0, 1} \X {-1, 0, 1} \X {-1, 0, 1}
RowOf(d) == (d[3] + 1) * 9 + (d[2] + 1) * 3 + (d[1] + 1)

\* the neighbour table of the active list l is laid out as claimed
NeighbourLayout(l) ==
  LET keys_nb == KeysNb(block_keys, l)
      nbs == BufferRadiusNeighbors(block_keys, active, l)
  IN /\ DOMAIN keys_nb = 0..26
     /\ DOMAIN nbs = 0..26
     /\ \A nb \in 0..26 : DOMAIN keys_nb[nb] = DOMAIN l /\ DOMAIN nbs[nb] = DOMAIN l
     /\ \A i \in DOMAIN l :
          LET key == block_keys[l[i]]
          IN /\ \A d \in Offsets :
                  /\ keys_nb[RowOf(d)][i]
                       = <<key[1] + d[1], key[2] + d[2], key[3] + d[3]>>
                  /\ nbs[RowOf(d)][i].mask
                       = Present(block_keys, active,
                                 <<key[1] + d[1], key[2] + d[2], key[3] + d[3]>>)
             /\ Cardinality({keys_nb[nb][i] : nb \in 0..26}) = 27
             /\ keys_nb[13][i] = key
             /\ nbs[13][i].mask
             /\ nbs[13][i].idx = l[i]

\* C28: for each of the n active blocks BufferRadiusNeighbors looks up exactly
\* the 27 keys key + (dx, dy, dz), dx, dy, dz in {-1, 0, 1}, each once, at row
\* (dz+1)*9 + (dy+1)*3 + (dx+1) and the column of the block in the active
\* list; row 13 is the block itself, found, at the block's own slot.
C28_NeighbourTableLayout ==
  \A l \in GetActiveIndices(active) : NeighbourLayout(l)

\* C28 witness: a surface extraction over two active blocks that are each
\* other's neighbour along z
C28_Witness ==
  /\ ret.op = "ExtractSurfacePoints"
  /\ Cardinality(active) = 2
  /\ \E l \in GetActiveIndices(active) :
       LET nbs == BufferRadiusNeighbors(block_keys, active, l)
       IN /\ block_keys[l[1]] = <<0, 0, 0>>
          /\ nbs[22][1].mask /\ nbs[22][1].idx = l[2]
          /\ nbs[4][2].mask /\ nbs[4][2].idx = l[1]
          /\ \A nb \in (0..26) \ {13, 22} : ~nbs[nb][1].mask

\* ---- claims on PointCloud::VoxelDownSample ----
\* the voxel of row i of the cloud the last call was made on
VoxelOfRow(i) ==
  [a \in 1..3 |->
     Floor(FDiv(FInt(ret.arg.pcd.points[i][a]), ret.arg.voxel_size))]

\* sel lists, in increasing order, one row of every occupied voxel
OnePerVoxel(sel) ==
  /\ \A j, k \in DOMAIN sel : j < k => sel[j] < sel[k]
  /\ \A j, k \in DOMAIN sel : VoxelOfRow(sel[j]) = VoxelOfRow(sel[k]) => j = k
  /\ \A i \in DOMAIN ret.arg.pcd.points :
       \E j \in DOMAIN sel : VoxelOfRow(sel[j]) = VoxelOfRow(i)

\* C29: with voxel_size > 0 VoxelDownSample returns one point per distinct
\* occupied voxel floor(p / voxel_size), at the voxel index times voxel_size,
\* and the other attributes of the same selected rows; with voxel_size <= 0
\* it fails with an error.
C29_OnePointPerVoxel ==
  ret.op = "VoxelDownSample" =>
    IF FracLeq(ret.arg.voxel_size, Zero)
    THEN ret.threw /\ ret.error = "voxel_size must be positive."
    ELSE /\ ~ret.threw
         /\ \E sel \in SeqsUpTo(DOMAIN ret.arg.pcd.points, 3) :
              /\ OnePerVoxel(sel)
              /\ DOMAIN ret.value.points = DOMAIN sel
              /\ DOMAIN ret.value.colors = DOMAIN sel
              /\ \A j \in DOMAIN sel :
                   /\ ret.value.points[j]
                        = [a \in 1..3 |->
                             FMul(FInt(VoxelOfRow(sel[j])[a]), ret.arg.voxel_size)]
                   /\ ret.value.colors[j] = ret.arg.pcd.colors[sel[j]]

\* C29 witness: three points, two of them in one voxel with a negative index,
\* down-sampled to two points, the second row being the one that was kept
C29_Witness ==
  /\ ret.op = "VoxelDownSample" /\ ~ret.threw
  /\ Len(ret.arg.pcd.points) = 3
  /\ Len(ret.value.points) = 2
  /\ ret.value.colors = <<2, 3>>
  /\ VoxelOfRow(1) = VoxelOfRow(2)
  /\ VoxelOfRow(1)[1] < 0
  /\ ret.value.points[1] # [a \in 1..3 |-> FInt(ret.arg.pcd.points[2][a])]

\* C29 witness of the failing case: a call with voxel_size 0 raised the error
C29_WitnessRejected ==
  ret.op = "VoxelDownSample" /\ ret.threw /\ ret.arg.voxel_size = Zero

====
